---------------------------- MODULE Spec2Model ----------------------------
(***************************************************************************)
(* Appointment-booking backend (rafaelpuyet/backend).                      *)
(*                                                                         *)
(* The module models the datastore (appointments, temporary tokens, the    *)
(* precomputed-slot cache, schedules, exceptions, the audit log), the      *)
(* slot generator of the nightly cron job, and the public / business       *)
(* appointment handlers.                                                   *)
(*                                                                         *)
(* Times.  An instant is a number of minutes on the business's local      *)
(* time line: instant = day * DayMinutes + minute of the day.  The code    *)
(* keeps a schedule's startTime / endTime and a cached slot's startTime /  *)
(* endTime as 'HH:mm:ss' strings: the model keeps them as the minute of    *)
(* the day, TimeOfDay formats an instant and Instant parses a (day, time   *)
(* of day) pair.  Day 0 is a Sunday, as moment's day() counts.             *)
(***************************************************************************)
EXTENDS Integers, Sequences, FiniteSets, TLC

VARIABLES
    schedules,       \* Schedule rows, a sequence (id = index)
    exceptions,      \* Exception rows, a set
    appointments,    \* Appointment rows, a sequence (id = index)
    tokens,          \* TemporaryToken rows, a sequence (token value = index)
    availableSlots,  \* AvailableSlots rows (the slot cache), a sequence
    generated,       \* per schedule, the slots the last cron run generated
    auditLog,        \* AuditLog rows, a sequence
    now,             \* the wall clock, in minutes
    procs,           \* the request in flight of each request-handling worker
    last,            \* the request that completed last, with its response
    tokenMutated,    \* tokens whose client request wrote its appointment
    workers,         \* Worker rows, a sequence (id = index)
    refreshTokens    \* RefreshToken rows, a sequence (token = index)

vars == << schedules, exceptions, appointments, tokens, availableSlots,
           generated, auditLog, now, procs, last, tokenMutated, workers,
           refreshTokens >>

---------------------------------------------------------------------------
(* Bounds and values *)

\* Days the cron job looks ahead (30 in the code); days 0 .. HorizonDays.
HorizonDays == 1

\* Appointment rows the model lets the handlers create.
MaxAppointments == 2

\* The clock stops advancing at MaxNow minutes.
MaxNow == 10

\* Minutes a temporary token lives.
TokenTTL == 10

DayMinutes == 24 * 60

\* An absent optional id (branchId, workerId), time or status.
NoId == 0
NoTime == 0 - 1
NoStatus == "none"

Emails == {"ana@x", "bob@x"}

DayOf(instant) == instant \div DayMinutes
TimeOfDay(instant) == instant % DayMinutes
Instant(day, timeOfDay) == day * DayMinutes + timeOfDay
StartOfDay(instant) == DayOf(instant) * DayMinutes
DayOfWeek(day) == day % 7

Range(seq) == { seq[i] : i \in DOMAIN seq }

---------------------------------------------------------------------------
(* The slot generator: generateSlots of the cron job *)

\* isBlocked without its isClosed test: only the exception's window blocks.
isBlockedWindowOnly(excs, currentDate, start) ==
    \E e \in excs :
        /\ DayOf(e.date) = currentDate
        /\ e.startTime # NoTime
        /\ e.endTime # NoTime
        /\ start >= Instant(DayOf(e.date), e.startTime)
        /\ start < Instant(DayOf(e.date), e.endTime)

\* isBlocked: an exception of the business on the current date that is a
\* full closure, or whose window holds the slot's start.
isBlocked(excs, currentDate, start) ==
    \E e \in excs :
        /\ DayOf(e.date) = currentDate
        /\ \/ e.isClosed
           \/ /\ e.startTime # NoTime
              /\ e.endTime # NoTime
              /\ start >= Instant(DayOf(e.date), e.startTime)
              /\ start < Instant(DayOf(e.date), e.endTime)

\* isBooked: a non-cancelled appointment of the business that starts in the
\* same minute as the slot.
isBooked(appts, start, slotEnd) ==
    \E a \in appts : a.startTime = start /\ a.status # "cancelled"

\* The inner loop: while (start.isBefore(end)) { ...; start.add(D) }
RECURSIVE SlotLoop(_, _, _, _, _, _)
SlotLoop(schedule, currentDate, start, end, excs, appts) ==
    IF ~(start < end)
    THEN << >>
    ELSE LET slotEnd == start + schedule.slotDuration
             row == [ branchId  |-> schedule.branchId,
                      workerId  |-> schedule.workerId,
                      date      |-> Instant(currentDate, 0),
                      startTime |-> TimeOfDay(start),
                      endTime   |-> TimeOfDay(slotEnd) ]
             here == IF ~isBlocked(excs, currentDate, start)
                        /\ ~isBooked(appts, start, slotEnd)
                     THEN << row >>
                     ELSE << >>
         IN  here \o SlotLoop(schedule, currentDate, slotEnd, end, excs, appts)

\* The outer loop over the dates startDate .. endDate.
RECURSIVE generateSlots(_, _, _, _, _)
generateSlots(schedule, startDate, endDate, excs, appts) ==
    IF startDate > endDate
    THEN << >>
    ELSE LET today ==
                 IF schedule.dayOfWeek = DayOfWeek(startDate)
                 THEN SlotLoop(schedule, startDate,
                               Instant(startDate, schedule.startTime),
                               Instant(startDate, schedule.endTime),
                               excs, appts)
                 ELSE << >>
         IN  today \o generateSlots(schedule, startDate + 1, endDate, excs, appts)

\* The cron job 'Precalcular AvailableSlots' for the one business: delete the
\* cached rows from today on, then create every schedule's generated rows.
RECURSIVE CreateAll(_, _)
CreateAll(gen, i) ==
    IF i > Len(gen) THEN << >> ELSE gen[i] \o CreateAll(gen, i + 1)

\* A run without its deleteMany: every cached row is left.
deleteManyNothing(cache, today) == cache

\* availableSlots.deleteMany({ date: { gte: today } }): the rows left.
deleteMany(cache, today) ==
    SelectSeq(cache, LAMBDA r : r.date < Instant(today, 0))

\* The rows a run generates, per schedule, from the datastore as it is.
cronGenerated ==
    [ i \in DOMAIN schedules |->
        generateSlots(schedules[i], DayOf(now), DayOf(now) + HorizonDays,
                      exceptions, Range(appointments)) ]

\* The cache a run leaves when it starts from `cache`.
cronSlots(cache) == deleteMany(cache, DayOf(now)) \o CreateAll(cronGenerated, 1)

CronAvailableSlots ==
    /\ generated' = cronGenerated
    /\ availableSlots' = cronSlots(availableSlots)
    /\ UNCHANGED << workers, refreshTokens, schedules, exceptions,
                    appointments, tokens, auditLog, now, procs, last,
                    tokenMutated >>

---------------------------------------------------------------------------
(* Inputs of the slot-generation specification *)

Sched(b, w, dow, s, e, d) ==
    [ branchId |-> b, workerId |-> w, dayOfWeek |-> dow,
      startTime |-> s, endTime |-> e, slotDuration |-> d ]

Exc(b, w, day, closed, s, e) ==
    [ branchId |-> b, workerId |-> w, date |-> Instant(day, 0),
      isClosed |-> closed, startTime |-> s, endTime |-> e ]

Appt(b, w, email, s, e, st) ==
    [ branchId |-> b, workerId |-> w, clientEmail |-> email,
      startTime |-> s, endTime |-> e, status |-> st ]

\* Monday 09:00-17:00 every 30 minutes; Monday 09:00-10:00 every 45; a second
\* worker's Monday 09:00-10:00 every 30; Sunday 00:00-01:00 every 30.
ScheduleChoices ==
    { Sched(1, 1, 1, 540, 1020, 30),
      Sched(1, 1, 1, 540, 600, 45),
      Sched(1, 2, 1, 540, 600, 30),
      Sched(1, 1, 0, 0, 60, 30) }

ScheduleSeqs ==
    { << s >> : s \in ScheduleChoices }
    \cup { << s, t >> : s \in { Sched(1, 1, 1, 540, 600, 45),
                                Sched(1, 1, 0, 0, 60, 30) },
                        t \in { Sched(1, 2, 1, 540, 600, 30) } }

ExceptionSets ==
    { {},
      { Exc(1, 1, 1, TRUE, NoTime, NoTime) },
      { Exc(1, 1, 1, FALSE, 540, 570) },
      { Exc(1, 1, 0, TRUE, NoTime, NoTime) },
      { Exc(1, 2, 1, TRUE, NoTime, NoTime) } }

AppointmentSeqs ==
    { << >>,
      << Appt(1, 1, "ana@x", Instant(1, 540), Instant(1, 570), "pending") >>,
      << Appt(1, 2, "ana@x", Instant(1, 540), Instant(1, 570), "pending") >>,
      << Appt(1, 1, "ana@x", Instant(1, 555), Instant(1, 585), "confirmed") >>,
      << Appt(1, 1, "ana@x", Instant(1, 540), Instant(1, 570), "cancelled") >>,
      << Appt(1, 1, "ana@x", Instant(1, 540), Instant(1, 570), "cancelled"),
         Appt(1, 1, "bob@x", Instant(1, 570), Instant(1, 600), "confirmed") >> }

NoRequest == [ op |-> "none" ]

\* A Worker row, and the workers every business starts with: business 1 has
\* its owner worker and one more, business 2 its owner worker.
Worker(businessId, workerName, isOwner) ==
    [ businessId |-> businessId, workerName |-> workerName,
      isOwner |-> isOwner ]

SeedWorkers ==
    << Worker(1, "ana", TRUE), Worker(1, "bob", FALSE),
       Worker(2, "eve", TRUE) >>

SlotInit ==
    /\ schedules \in ScheduleSeqs
    /\ exceptions \in ExceptionSets
    /\ appointments \in AppointmentSeqs
    /\ tokens = << >>
    /\ availableSlots = << >>
    /\ generated = << >>
    /\ auditLog = << >>
    /\ now = 0
    /\ procs = << >>
    /\ last = NoRequest
    /\ tokenMutated = {}
    /\ workers = SeedWorkers
    /\ refreshTokens = << >>

SlotNext == CronAvailableSlots

SlotSpec == SlotInit /\ [][SlotNext]_vars

---------------------------------------------------------------------------
(* The booking handlers: routes/public.js and routes/appointments.js        *)
(*                                                                         *)
(* Each request-handling worker runs one request at a time.  A request's    *)
(* datastore reads and its write transaction are separate steps, so the     *)
(* steps of two requests interleave; a prisma.$transaction commits all of   *)
(* its writes or, when a statement or the e-mail in it throws, none.        *)

Procs == {"w1", "w2"}

\* Requests the model lets the workers start.
MaxRequests == 3

BranchInputs == {1}
WorkerInputs == {1, 2}

\* The (startTime, endTime) pairs a request may carry, as instants.
TimeInputs ==
    { << Instant(1, 0), Instant(1, 30) >>,
      << Instant(1, 0), Instant(1, 60) >>,
      << Instant(1, 15), Instant(1, 30) >>,
      << Instant(1, 30), Instant(1, 60) >>,
      << Instant(1, 30), Instant(1, 30) >> }

StatusInputs == {"pending", "confirmed", "cancelled"}

IdleProc ==
    [ pc |-> "idle", op |-> "none", id |-> NoId, tok |-> NoId,
      branchId |-> NoId, workerId |-> NoId, clientEmail |-> "",
      startTime |-> NoTime, endTime |-> NoTime, status |-> NoStatus,
      was |-> NoStatus, tokenWasUsed |-> FALSE ]

\* The response a step sends, with what the request found; `last` holds it
\* until it is sent.  `emails` counts the notifications the request sent.
Response(r, code, error, changed, emails) ==
    [ op |-> r.op, id |-> r.id, tok |-> r.tok, status |-> r.status,
      branchId |-> r.branchId, workerId |-> r.workerId,
      clientEmail |-> r.clientEmail,
      startTime |-> r.startTime, endTime |-> r.endTime,
      was |-> r.was, code |-> code, error |-> error,
      tokenWasUsed |-> r.tokenWasUsed, changed |-> changed,
      emails |-> emails ]

Started == Len(auditLog) + Cardinality({ p \in Procs : procs[p].pc # "idle" })

DbUnchanged == UNCHANGED << appointments, tokens, auditLog, tokenMutated >>
Static ==
    UNCHANGED << workers, refreshTokens, schedules, exceptions, availableSlots,
                 generated, now >>

\* Worker p is at pc, and the response of the step before has been sent.
Ready(p, pc) == last = NoRequest /\ procs[p].pc = pc

\* The request of worker p ends with a response and no write.
Reject(p, r, code, error) ==
    /\ procs' = [ procs EXCEPT ![p] = IdleProc ]
    /\ last' = Response(r, code, error, FALSE, 0)
    /\ DbUnchanged

\* The request of worker p goes on to its next datastore access.
Continue(p, r, pc) ==
    /\ procs' = [ procs EXCEPT ![p] = [ r EXCEPT !.pc = pc ] ]
    /\ UNCHANGED last
    /\ DbUnchanged

\* availableSlots.findFirst({ businessId, date, startTime, endTime, branchId,
\* workerId }): an absent branchId / workerId is no filter.  The date is
\* start.startOf('day'), which also resets `start` itself, so the startTime
\* looked up is the formatted start of the day.
availableSlot(branchId, workerId, startTime, endTime) ==
    \E k \in DOMAIN availableSlots :
        LET row == availableSlots[k]
            start == StartOfDay(startTime)
        IN  /\ row.date = start
            /\ row.startTime = TimeOfDay(start)
            /\ row.endTime = TimeOfDay(endTime)
            /\ (branchId # NoId => row.branchId = branchId)
            /\ (workerId # NoId => row.workerId = workerId)

\* appointment.findFirst({ businessId, branchId, workerId, status: not
\* cancelled, id: not id, startTime <= end, endTime >= start }), `start`
\* being the start of the day by now.
overlapping(branchId, workerId, id, startTime, endTime) ==
    \E i \in DOMAIN appointments :
        LET a == appointments[i]
        IN  /\ i # id
            /\ (branchId # NoId => a.branchId = branchId)
            /\ (workerId # NoId => a.workerId = workerId)
            /\ a.status # "cancelled"
            /\ a.startTime <= endTime
            /\ a.endTime >= StartOfDay(startTime)

\* temporaryToken.findFirst without `used: false` in its filter.
tempTokenIgnoringUsed(id, tok) ==
    /\ tok \in DOMAIN tokens
    /\ id \in DOMAIN appointments
    /\ tokens[tok].appointmentId = id
    /\ tokens[tok].clientEmail = appointments[id].clientEmail
    /\ tokens[tok].expiresAt > now

\* temporaryToken.findFirst({ appointmentId: id, token, clientEmail:
\* appointment.clientEmail, expiresAt > now, used: false }) finds a row.
tempToken(id, tok) ==
    /\ tok \in DOMAIN tokens
    /\ id \in DOMAIN appointments
    /\ tokens[tok].appointmentId = id
    /\ tokens[tok].clientEmail = appointments[id].clientEmail
    /\ tokens[tok].expiresAt > now
    /\ ~tokens[tok].used

WasUsed(tok) == tok \in DOMAIN tokens /\ tokens[tok].used

\* The status the request finds on the appointment, if there is one.
StatusOf(id) ==
    IF id \in DOMAIN appointments THEN appointments[id].status ELSE NoStatus

\* validTransitions with `cancelled: ['confirmed']` in place of `cancelled: []`.
validTransitionsReopen(from, to) ==
    \/ from = "pending" /\ to \in {"confirmed", "cancelled"}
    \/ from = "confirmed" /\ to = "cancelled"
    \/ from = "cancelled" /\ to = "confirmed"

\* validTransitions[from].includes(to)
validTransitions(from, to) ==
    \/ from = "pending" /\ to \in {"confirmed", "cancelled"}
    \/ from = "confirmed" /\ to = "cancelled"

(* POST /public/business/:username/appointments *)

\* Validation, the start < end check, the cache lookup and the overlap read.
ClaimCheck(p) ==
    /\ Ready(p, "idle")
    /\ Started < MaxRequests
    /\ Len(appointments)
         + Cardinality({ q \in Procs : procs[q].pc = "c_tx" }) < MaxAppointments
    /\ \E b \in BranchInputs, w \in WorkerInputs, e \in Emails, t \in TimeInputs :
           LET r == [ IdleProc EXCEPT !.op = "claim", !.branchId = b,
                        !.workerId = w, !.clientEmail = e,
                        !.startTime = t[1], !.endTime = t[2] ]
           IN  IF t[1] >= t[2]
               THEN Reject(p, r, 400, "ValidationError")
               ELSE IF ~availableSlot(b, w, t[1], t[2])
               THEN Reject(p, r, 400, "SlotUnavailable")
               ELSE IF overlapping(b, w, NoId, t[1], t[2])
               THEN Reject(p, r, 400, "SlotAlreadyBooked")
               ELSE Continue(p, r, "c_tx")
    /\ Static

\* temporaryToken.create with `Date.now() + 10 * 60` for expiresAt: the
\* token expires as it is made.
temporaryTokenExpired(appointmentId, clientEmail) ==
    [ appointmentId |-> appointmentId, clientEmail |-> clientEmail,
      expiresAt |-> now, used |-> FALSE ]

\* tx.temporaryToken.create({ appointmentId, token, clientEmail, expiresAt:
\* Date.now() + 10 * 60 * 1000 }); `used` defaults to false.
temporaryToken(appointmentId, clientEmail) ==
    [ appointmentId |-> appointmentId, clientEmail |-> clientEmail,
      expiresAt |-> now + TokenTTL, used |-> FALSE ]

\* The transaction: create the appointment, its token and the audit row, and
\* send the confirmation e-mail; a failed e-mail rolls all of it back.
ClaimTx(p) ==
    /\ Ready(p, "c_tx")
    /\ LET r == procs[p]
           id == Len(appointments) + 1
       IN  \E emailOk \in BOOLEAN :
               IF emailOk
               THEN /\ appointments' = Append(appointments,
                          [ branchId |-> r.branchId, workerId |-> r.workerId,
                            clientEmail |-> r.clientEmail,
                            startTime |-> StartOfDay(r.startTime),
                            endTime |-> r.endTime, status |-> "pending" ])
                    /\ tokens' = Append(tokens, temporaryToken(id, r.clientEmail))
                    /\ auditLog' = Append(auditLog,
                          [ action |-> "create", entityId |-> id ])
                    /\ procs' = [ procs EXCEPT ![p] = IdleProc ]
                    /\ last' = Response([ r EXCEPT !.id = id, !.tok = id ],
                                        200, "", TRUE, 1)
                    /\ UNCHANGED tokenMutated
               ELSE Reject(p, r, 500, "EmailFailed")
    /\ Static

(* PUT /public/appointments/:id *)

\* appointment.findUnique, temporaryToken.findFirst, the start < end check
\* and the cache lookup.
PutCheck(p) ==
    /\ Ready(p, "idle")
    /\ Started < MaxRequests
    /\ \E id \in 1 .. MaxAppointments, tok \in 1 .. MaxAppointments,
          t \in TimeInputs :
           LET r == [ IdleProc EXCEPT !.op = "clientPut", !.id = id, !.tok = tok,
                        !.startTime = t[1], !.endTime = t[2],
                        !.was = StatusOf(id), !.tokenWasUsed = WasUsed(tok) ]
           IN  IF id \notin DOMAIN appointments
               THEN Reject(p, r, 404, "NotFound")
               ELSE IF ~tempToken(id, tok)
               THEN Reject(p, r, 400, "InvalidOrExpiredToken")
               ELSE IF t[1] >= t[2]
               THEN Reject(p, r, 400, "ValidationError")
               ELSE IF ~availableSlot(appointments[id].branchId,
                                      appointments[id].workerId, t[1], t[2])
               THEN Reject(p, r, 400, "SlotUnavailable")
               ELSE Continue(p, r, "p_overlap")
    /\ Static

PutOverlap(p) ==
    /\ Ready(p, "p_overlap")
    /\ LET r == procs[p]
           a == appointments[r.id]
       IN  IF overlapping(a.branchId, a.workerId, r.id, r.startTime, r.endTime)
           THEN Reject(p, r, 400, "SlotAlreadyBooked")
           ELSE Continue(p, r, "p_tx")
    /\ Static

\* The transaction: move the appointment, mark the token used, audit.
PutTx(p) ==
    /\ Ready(p, "p_tx")
    /\ LET r == procs[p]
       IN  \E txOk \in BOOLEAN :
               IF txOk
               THEN /\ appointments' =
                          [ appointments EXCEPT
                              ![r.id].startTime = StartOfDay(r.startTime),
                              ![r.id].endTime = r.endTime ]
                    /\ tokens' = [ tokens EXCEPT ![r.tok].used = TRUE ]
                    /\ auditLog' = Append(auditLog,
                          [ action |-> "update", entityId |-> r.id ])
                    /\ tokenMutated' = tokenMutated \cup { r.tok }
                    /\ procs' = [ procs EXCEPT ![p] = IdleProc ]
                    /\ last' = Response(r, 200, "", TRUE, 0)
               ELSE Reject(p, r, 500, "TransactionFailed")
    /\ Static

(* DELETE /public/appointments/:id *)

DeleteCheck(p) ==
    /\ Ready(p, "idle")
    /\ Started < MaxRequests
    /\ \E id \in 1 .. MaxAppointments, tok \in 1 .. MaxAppointments :
           LET r == [ IdleProc EXCEPT !.op = "clientDelete", !.id = id,
                        !.tok = tok, !.was = StatusOf(id),
                        !.tokenWasUsed = WasUsed(tok) ]
           IN  IF id \notin DOMAIN appointments
               THEN Reject(p, r, 404, "NotFound")
               ELSE IF ~tempToken(id, tok)
               THEN Reject(p, r, 400, "InvalidOrExpiredToken")
               ELSE Continue(p, r, "d_tx")
    /\ Static

\* The transaction: cancel, mark the token used, audit, send the e-mail.
DeleteTx(p) ==
    /\ Ready(p, "d_tx")
    /\ LET r == procs[p]
       IN  \E emailOk \in BOOLEAN :
               IF emailOk
               THEN /\ appointments' =
                          [ appointments EXCEPT ![r.id].status = "cancelled" ]
                    /\ tokens' = [ tokens EXCEPT ![r.tok].used = TRUE ]
                    /\ auditLog' = Append(auditLog,
                          [ action |-> "delete", entityId |-> r.id ])
                    /\ tokenMutated' = tokenMutated \cup { r.tok }
                    /\ procs' = [ procs EXCEPT ![p] = IdleProc ]
                    /\ last' = Response(r, 200, "", TRUE, 1)
               ELSE Reject(p, r, 500, "EmailFailed")
    /\ Static

(* PUT /appointments/:id, the business owner's update *)

\* What the request carries: both times, or none; a status, or none.
BusinessTimeInputs == TimeInputs \cup { << NoTime, NoTime >> }
BusinessStatusInputs == StatusInputs \cup { NoStatus }

\* appointment.findUnique, the owner check, the transition check, the
\* start < end check and the cache lookup (of the whole business).
BusinessCheck(p) ==
    /\ Ready(p, "idle")
    /\ Started < MaxRequests
    /\ \E id \in 1 .. MaxAppointments, t \in BusinessTimeInputs,
          st \in BusinessStatusInputs, owner \in BOOLEAN :
           LET r == [ IdleProc EXCEPT !.op = "businessPut", !.id = id,
                        !.startTime = t[1], !.endTime = t[2], !.status = st,
                        !.was = StatusOf(id) ]
           IN  IF id \notin DOMAIN appointments
               THEN Reject(p, r, 404, "NotFound")
               ELSE IF ~owner
               THEN Reject(p, r, 403, "Unauthorized")
               ELSE IF st # NoStatus /\ ~validTransitions(r.was, st)
               THEN Reject(p, r, 400, "InvalidStatusTransition")
               ELSE IF t[1] = NoTime
               THEN Continue(p, r, "b_tx")
               ELSE IF t[1] >= t[2]
               THEN Reject(p, r, 400, "ValidationError")
               ELSE IF ~availableSlot(NoId, NoId, t[1], t[2])
               THEN Reject(p, r, 400, "SlotUnavailable")
               ELSE Continue(p, r, "b_overlap")
    /\ Static

BusinessOverlap(p) ==
    /\ Ready(p, "b_overlap")
    /\ LET r == procs[p]
       IN  IF overlapping(NoId, NoId, r.id, r.startTime, r.endTime)
           THEN Reject(p, r, 400, "SlotAlreadyBooked")
           ELSE Continue(p, r, "b_tx")
    /\ Static

\* The transaction: update the appointment with the fields the request
\* carries (startTime and endTime as sent), audit.
BusinessTx(p) ==
    /\ Ready(p, "b_tx")
    /\ LET r == procs[p]
           a == appointments[r.id]
           data == [ a EXCEPT
                       !.startTime = IF r.startTime # NoTime
                                     THEN r.startTime ELSE @,
                       !.endTime = IF r.endTime # NoTime THEN r.endTime ELSE @,
                       !.status = IF r.status # NoStatus THEN r.status ELSE @ ]
       IN  \E txOk \in BOOLEAN :
               IF txOk
               THEN /\ appointments' = [ appointments EXCEPT ![r.id] = data ]
                    /\ auditLog' = Append(auditLog,
                          [ action |-> "update", entityId |-> r.id ])
                    /\ procs' = [ procs EXCEPT ![p] = IdleProc ]
                    /\ last' = Response(r, 200, "", TRUE, 0)
                    /\ UNCHANGED << tokens, tokenMutated >>
               ELSE Reject(p, r, 500, "TransactionFailed")
    /\ Static

(* GET /public/business/:username/availability *)

\* The dates a query may name, as days.
DateInputs == { 1 }

\* availableSlots.findMany({ businessId, date within the day, branchId,
\* workerId }): the rows of the cache, an absent branchId / workerId being
\* no filter.  Nothing else is read.
availability(date, branchId, workerId) ==
    { availableSlots[k] : k \in
        { k \in DOMAIN availableSlots :
            /\ DayOf(availableSlots[k].date) = date
            /\ (branchId # NoId => availableSlots[k].branchId = branchId)
            /\ (workerId # NoId => availableSlots[k].workerId = workerId) } }

GetAvailability ==
    /\ last = NoRequest
    /\ \E date \in DateInputs, b \in BranchInputs \cup { NoId },
          w \in WorkerInputs \cup { NoId } :
           last' = [ op |-> "availability", date |-> date, branchId |-> b,
                     workerId |-> w, code |-> 200,
                     availableSlots |-> availability(date, b, w) ]
    /\ UNCHANGED << workers, refreshTokens, schedules, exceptions,
                    appointments, tokens, availableSlots,
                    generated, auditLog, now, procs, tokenMutated >>

\* Time passes.
Tick ==
    /\ last = NoRequest
    /\ now + TokenTTL <= MaxNow
    /\ now' = now + TokenTTL
    /\ UNCHANGED << workers, refreshTokens, schedules, exceptions,
                    appointments, tokens, availableSlots,
                    generated, auditLog, procs, last, tokenMutated >>

\* The response goes out to the caller.
ResponseSent ==
    /\ last # NoRequest
    /\ last' = NoRequest
    /\ UNCHANGED << workers, refreshTokens, schedules, exceptions,
                    appointments, tokens, availableSlots,
                    generated, auditLog, now, procs, tokenMutated >>

\* The schedules of the booking specifications: two workers, Monday
\* 00:00-01:00 every 30 minutes; the cache as the cron job fills it.
BookingSchedules == << Sched(1, 1, 1, 0, 60, 30), Sched(1, 2, 1, 0, 60, 30) >>

BookingCache ==
    CreateAll([ i \in DOMAIN BookingSchedules |->
                  generateSlots(BookingSchedules[i], 0, HorizonDays, {}, {}) ], 1)

Init ==
    /\ schedules = BookingSchedules
    /\ exceptions = {}
    /\ appointments = << >>
    /\ tokens = << >>
    /\ availableSlots = BookingCache
    /\ generated = << >>
    /\ auditLog = << >>
    /\ now = 0
    /\ procs = [ p \in Procs |-> IdleProc ]
    /\ last = NoRequest
    /\ tokenMutated = {}
    /\ workers = SeedWorkers
    /\ refreshTokens = << >>

Next ==
    \/ \E p \in Procs : ClaimCheck(p)
    \/ \E p \in Procs : ClaimTx(p)
    \/ \E p \in Procs : PutCheck(p)
    \/ \E p \in Procs : PutOverlap(p)
    \/ \E p \in Procs : PutTx(p)
    \/ \E p \in Procs : DeleteCheck(p)
    \/ \E p \in Procs : DeleteTx(p)
    \/ \E p \in Procs : BusinessCheck(p)
    \/ \E p \in Procs : BusinessOverlap(p)
    \/ \E p \in Procs : BusinessTx(p)
    \/ GetAvailability
    \/ Tick
    \/ ResponseSent

Spec == Init /\ [][Next]_vars

\* Only claimSlot requests, any number of them at once.
ClaimNext ==
    \/ \E p \in Procs : ClaimCheck(p)
    \/ \E p \in Procs : ClaimTx(p)
    \/ Tick
    \/ ResponseSent

ClaimSpec == Init /\ [][ClaimNext]_vars

---------------------------------------------------------------------------
(* The earlier revisions of the handlers the repository also carries:       *)
(* unnamed/part_000 (client PUT and DELETE), unnamed/part_003 (business     *)
(* PUT) and the first routes/public.js (client PUT).  Each handler is one   *)
(* step here; the datastore holds appointments and their tokens already.    *)

\* Requests of the earlier revisions that commit.
MaxLegacyRequests == 2

\* What the token check of a client request had before it.
TokenFacts(id, tok) ==
    IF tok \in DOMAIN tokens /\ id \in DOMAIN appointments
    THEN [ tokenMatches |-> tokens[tok].appointmentId = id,
           tokenWasUsed |-> tokens[tok].used,
           tokenLive |-> tokens[tok].expiresAt > now,
           emailMatches |-> tokens[tok].clientEmail = appointments[id].clientEmail ]
    ELSE [ tokenMatches |-> FALSE, tokenWasUsed |-> FALSE,
           tokenLive |-> FALSE, emailMatches |-> FALSE ]

\* The response of a request of the earlier revisions; emailToken is the
\* `token` of the e-mail the request has sent, NoId when it sent none.
LegacyResponse(op, id, tok, code, error, changed) ==
    [ op |-> op, id |-> id, tok |-> tok, was |-> StatusOf(id), code |-> code,
      error |-> error, changed |-> changed, facts |-> TokenFacts(id, tok),
      emailToken |-> NoId ]

\* require('crypto').randomBytes(32).toString('hex'): a value that is the
\* token of no stored row.
randomBytes == Len(tokens) + 1

LegacyStatic ==
    UNCHANGED << workers, refreshTokens, schedules, exceptions, availableSlots,
                 generated, now, procs >>

LegacyReject(op, id, tok, code, error) ==
    /\ last' = LegacyResponse(op, id, tok, code, error, FALSE)
    /\ DbUnchanged

LegacyTimeInputs ==
    { t \in TimeInputs : t[1] < t[2] } \cup { << NoTime, NoTime >> }

\* appointment.findFirst({ businessId, startTime, status: not cancelled,
\* id: not id }): another live appointment starts at the same instant.
existing(id, startTime) ==
    \E i \in DOMAIN appointments :
        /\ i # id
        /\ appointments[i].startTime = startTime
        /\ appointments[i].status # "cancelled"

\* The token check of part_000: findUnique({ token }), then used, expiresAt
\* and clientEmail are compared; appointmentId is not.
manageToken(id, tok) ==
    /\ tok \in DOMAIN tokens
    /\ ~tokens[tok].used
    /\ ~(tokens[tok].expiresAt < now)
    /\ tokens[tok].clientEmail = appointments[id].clientEmail

\* PUT /public/appointments/:id of part_000.  `lock` is not an argument
\* findFirst knows: the client either ignores it or throws on it.
ManagePut ==
    /\ last = NoRequest
    /\ Len(auditLog) < MaxLegacyRequests
    /\ \E id \in 1 .. MaxAppointments, tok \in 1 .. MaxAppointments,
          t \in LegacyTimeInputs, lockOk \in BOOLEAN, emailOk \in BOOLEAN :
           IF id \notin DOMAIN appointments
           THEN LegacyReject("managePut", id, tok, 500, "NotFound")
           ELSE IF ~manageToken(id, tok)
           THEN LegacyReject("managePut", id, tok, 500, "InvalidOrExpiredToken")
           ELSE IF t[1] # NoTime /\ ~lockOk
           THEN LegacyReject("managePut", id, tok, 500, "QueryFailed")
           ELSE IF t[1] # NoTime /\ existing(id, t[1])
           THEN LegacyReject("managePut", id, tok, 500, "SlotAlreadyBooked")
           ELSE IF ~emailOk
           THEN LegacyReject("managePut", id, tok, 500, "EmailFailed")
           ELSE /\ appointments' =
                      IF t[1] # NoTime
                      THEN [ appointments EXCEPT
                               ![id].startTime = t[1], ![id].endTime = t[2],
                               ![id].status = "pending" ]
                      ELSE appointments
                /\ tokenMutated' =
                      IF t[1] # NoTime THEN tokenMutated \cup { tok }
                      ELSE tokenMutated
                /\ tokens' = [ tokens EXCEPT ![tok].used = TRUE ]
                /\ auditLog' = Append(auditLog,
                      [ action |-> "update", entityId |-> id ])
                /\ last' = [ LegacyResponse("managePut", id, tok, 200, "", TRUE)
                               EXCEPT !.emailToken = randomBytes ]
    /\ LegacyStatic

\* DELETE /public/appointments/:id of part_000.
ManageDelete ==
    /\ last = NoRequest
    /\ Len(auditLog) < MaxLegacyRequests
    /\ \E id \in 1 .. MaxAppointments, tok \in 1 .. MaxAppointments,
          emailOk \in BOOLEAN :
           IF id \notin DOMAIN appointments
           THEN LegacyReject("manageDelete", id, tok, 500, "NotFound")
           ELSE IF ~manageToken(id, tok)
           THEN LegacyReject("manageDelete", id, tok, 500, "InvalidOrExpiredToken")
           ELSE IF ~emailOk
           THEN LegacyReject("manageDelete", id, tok, 500, "EmailFailed")
           ELSE /\ appointments' =
                      [ appointments EXCEPT ![id].status = "cancelled" ]
                /\ tokenMutated' = tokenMutated \cup { tok }
                /\ tokens' = [ tokens EXCEPT ![tok].used = TRUE ]
                /\ auditLog' = Append(auditLog,
                      [ action |-> "delete", entityId |-> id ])
                /\ last' = LegacyResponse("manageDelete", id, tok, 200, "", TRUE)
    /\ LegacyStatic

\* PUT /appointments/:id of part_003: a request with both times moves the
\* appointment and sets it pending; otherwise one with a status sets that.
UpdateAppointment ==
    /\ last = NoRequest
    /\ Len(auditLog) < MaxLegacyRequests
    /\ \E id \in 1 .. MaxAppointments, t \in LegacyTimeInputs,
          st \in BusinessStatusInputs, lockOk \in BOOLEAN, emailOk \in BOOLEAN :
           IF id \notin DOMAIN appointments
           THEN LegacyReject("updateAppointment", id, NoId, 500, "NotFound")
           ELSE IF st # NoStatus /\ ~validTransitions(appointments[id].status, st)
           THEN LegacyReject("updateAppointment", id, NoId, 500,
                             "InvalidStatusTransition")
           ELSE IF t[1] # NoTime /\ ~lockOk
           THEN LegacyReject("updateAppointment", id, NoId, 500, "QueryFailed")
           ELSE IF t[1] # NoTime /\ existing(id, t[1])
           THEN LegacyReject("updateAppointment", id, NoId, 500,
                             "SlotAlreadyBooked")
           ELSE IF ~emailOk
           THEN LegacyReject("updateAppointment", id, NoId, 500, "EmailFailed")
           ELSE /\ appointments' =
                      IF t[1] # NoTime
                      THEN [ appointments EXCEPT
                               ![id].startTime = t[1], ![id].endTime = t[2],
                               ![id].status = "pending" ]
                      ELSE IF st # NoStatus
                      THEN [ appointments EXCEPT ![id].status = st ]
                      ELSE appointments
                /\ auditLog' = Append(auditLog,
                      [ action |-> "update", entityId |-> id ])
                /\ last' = [ LegacyResponse("updateAppointment", id, NoId,
                                            200, "", TRUE)
                               EXCEPT !.emailToken = IF st # "cancelled"
                                                     THEN randomBytes ELSE NoId ]
                /\ UNCHANGED << tokens, tokenMutated >>
    /\ LegacyStatic

\* The token check of the first public.js: findUnique({ token, used: false,
\* expiresAt > now }), then appointmentId is compared.
publicToken(id, tok) ==
    /\ tok \in DOMAIN tokens
    /\ ~tokens[tok].used
    /\ tokens[tok].expiresAt > now
    /\ tokens[tok].appointmentId = id

\* PUT /public/appointments/:id of the first public.js: three writes, one
\* after the other and in no transaction; the request may fail between them.
PublicPut ==
    /\ last = NoRequest
    /\ Len(auditLog) < MaxLegacyRequests
    /\ \E id \in 1 .. MaxAppointments, tok \in 1 .. MaxAppointments,
          t \in LegacyTimeInputs, writes \in 1 .. 3 :
           IF ~publicToken(id, tok)
           THEN LegacyReject("publicPut", id, tok, 400, "InvalidOrExpiredToken")
           ELSE IF tokens[tok].clientEmail # appointments[id].clientEmail
           THEN LegacyReject("publicPut", id, tok, 400, "InvalidAppointment")
           ELSE IF t[1] # NoTime /\ existing(id, t[1])
           THEN LegacyReject("publicPut", id, tok, 400, "SlotAlreadyBooked")
           ELSE /\ appointments' =
                      [ appointments EXCEPT
                          ![id].startTime = IF t[1] # NoTime THEN t[1] ELSE @,
                          ![id].endTime = IF t[1] # NoTime THEN t[2] ELSE @,
                          ![id].status = "pending" ]
                /\ tokenMutated' = tokenMutated \cup { tok }
                /\ tokens' = IF writes >= 2
                             THEN [ tokens EXCEPT ![tok].used = TRUE ]
                             ELSE tokens
                /\ auditLog' = IF writes = 3
                               THEN Append(auditLog,
                                      [ action |-> "update", entityId |-> id ])
                               ELSE auditLog
                /\ last' = LegacyResponse("publicPut", id, tok,
                              IF writes = 3 THEN 200 ELSE 500,
                              IF writes = 3 THEN "" ELSE "WriteFailed", TRUE)
    /\ LegacyStatic

\* The datastore the earlier revisions start from: one appointment for each
\* worker, booked in the first slot, each with its unused token.
LegacyAppointments ==
    { << Appt(1, 1, e1, Instant(1, 0), Instant(1, 30), s1),
         Appt(1, 2, e2, Instant(1, 0), Instant(1, 30), s2) >> :
        e1 \in Emails, e2 \in Emails, s1 \in StatusInputs, s2 \in StatusInputs }

LegacyInit ==
    /\ schedules = BookingSchedules
    /\ exceptions = {}
    /\ appointments \in LegacyAppointments
    /\ tokens = [ i \in DOMAIN appointments |->
                    [ appointmentId |-> i,
                      clientEmail |-> appointments[i].clientEmail,
                      expiresAt |-> TokenTTL, used |-> FALSE ] ]
    /\ availableSlots = BookingCache
    /\ generated = << >>
    /\ auditLog = << >>
    /\ now = 0
    /\ procs = [ p \in Procs |-> IdleProc ]
    /\ last = NoRequest
    /\ tokenMutated = {}
    /\ workers = SeedWorkers
    /\ refreshTokens = << >>

LegacyNext ==
    \/ ManagePut
    \/ ManageDelete
    \/ UpdateAppointment
    \/ PublicPut
    \/ Tick
    \/ ResponseSent

LegacySpec == LegacyInit /\ [][LegacyNext]_vars

---------------------------------------------------------------------------
(* Claims about slot generation, checked under SlotSpec *)

CronRan == generated # << >>

SameScope(x, y) == x.branchId = y.branchId /\ x.workerId = y.workerId

\* The dates of the horizon on which a schedule applies.
ScheduleDates(s) ==
    { d \in DayOf(now) .. DayOf(now) + HorizonDays : DayOfWeek(d) = s.dayOfWeek }

\* Whether the rows generated for schedule i hold the slot [t, t + D) of day d.
Generated(i, d, t) ==
    \E k \in DOMAIN generated[i] :
        /\ generated[i][k].date = Instant(d, 0)
        /\ generated[i][k].startTime = t
        /\ generated[i][k].endTime = TimeOfDay(t + schedules[i].slotDuration)

\* C8: a window [start, end) with slot duration D yields, before exclusion,
\* exactly floor((end - start) / D) slots per date, the k-th being
\* [start + k*D, start + (k+1)*D), and none ends after end.
C8_SlotTiling ==
    (CronRan /\ exceptions = {} /\ appointments = << >>) =>
        \A i \in DOMAIN generated :
            LET s == schedules[i]
                n == (s.endTime - s.startTime) \div s.slotDuration
                rows == generated[i]
            IN  /\ Len(rows) = n * Cardinality(ScheduleDates(s))
                /\ \A k \in DOMAIN rows :
                       LET j == (k - 1) % n
                       IN  /\ rows[k].startTime = s.startTime + j * s.slotDuration
                           /\ rows[k].endTime = s.startTime + (j + 1) * s.slotDuration
                           /\ rows[k].endTime <= s.endTime

\* C9: a full-closure exception for (scope, date) leaves no slot of that
\* scope on that date, whatever the schedules are.
C9_ClosedDayHasNoSlots ==
    CronRan =>
        \A e \in exceptions :
            e.isClosed =>
                /\ \A i \in DOMAIN generated :
                       SameScope(schedules[i], e) =>
                           \A k \in DOMAIN generated[i] :
                               generated[i][k].date # Instant(DayOf(e.date), 0)
                /\ \A k \in DOMAIN availableSlots :
                       SameScope(availableSlots[k], e) =>
                           availableSlots[k].date # Instant(DayOf(e.date), 0)

\* C9's case: the cron job ran over a schedule whose scope has a full
\* closure on a date the schedule applies to.
C9_Witness ==
    /\ CronRan
    /\ \E e \in exceptions, i \in DOMAIN schedules :
           /\ e.isClosed
           /\ SameScope(schedules[i], e)
           /\ DayOf(e.date) \in ScheduleDates(schedules[i])
           /\ schedules[i].startTime < schedules[i].endTime

\* C10: a candidate slot is left out exactly when it overlaps a
\* non-cancelled appointment of the same scope (whatever that appointment's
\* start), and never on account of a cancelled appointment or one of another
\* scope.
C10_AppointmentExclusion ==
    (CronRan /\ exceptions = {}) =>
        \A i \in DOMAIN generated :
            \A d \in ScheduleDates(schedules[i]) :
                \A t \in schedules[i].startTime .. (schedules[i].endTime - 1) :
                    ((t - schedules[i].startTime) % schedules[i].slotDuration = 0) =>
                        LET s == schedules[i]
                            from == Instant(d, t)
                            to == from + s.slotDuration
                            taken == \E a \in Range(appointments) :
                                        /\ a.status # "cancelled"
                                        /\ SameScope(a, s)
                                        /\ a.startTime < to
                                        /\ a.endTime > from
                        IN  Generated(i, d, t) <=> ~taken

---------------------------------------------------------------------------
(* Claims about booking, rescheduling and cancelling *)

Overlap(a, b) == a.startTime < b.endTime /\ b.startTime < a.endTime

ClientOps == {"clientPut", "clientDelete"}

\* C1: of the claimSlot requests for the same scope, startTime and endTime at
\* most one creates an appointment: when a claim succeeds no other appointment
\* of that scope has the start and end it asked for.
C1_OneClaimPerSlot ==
    (last.op = "claim" /\ last.code = 200) =>
        \A j \in DOMAIN appointments :
            (/\ j # last.id
             /\ SameScope(appointments[j], appointments[last.id])
             /\ appointments[j].startTime = last.startTime
             /\ appointments[j].endTime = last.endTime) => FALSE

\* C2: no two appointments of the same scope, neither cancelled, have
\* overlapping [startTime, endTime) intervals.
C2_NoOverlap ==
    \A i \in DOMAIN appointments, j \in DOMAIN appointments :
        (/\ i # j
         /\ SameScope(appointments[i], appointments[j])
         /\ appointments[i].status # "cancelled"
         /\ appointments[j].status # "cancelled")
            => ~Overlap(appointments[i], appointments[j])

\* C3: a client reschedule or cancel that presents a token already used by a
\* successful client request never succeeds and changes nothing; when the
\* appointment exists it is answered InvalidOrExpiredToken, whether or not
\* the token has expired.
C3_UsedTokenRejected ==
    (last.op \in ClientOps /\ last.tokenWasUsed) =>
        /\ last.code # 200
        /\ ~last.changed
        /\ last.tok \in tokenMutated
        /\ (last.id \in DOMAIN appointments =>
                last.code = 400 /\ last.error = "InvalidOrExpiredToken")

C3_Witness ==
    /\ last.op \in ClientOps
    /\ last.tokenWasUsed
    /\ last.error = "InvalidOrExpiredToken"
    /\ tokens[last.tok].appointmentId = last.id
    /\ tokens[last.tok].expiresAt > now

\* C4: a token is marked used exactly when a client request presenting it has
\* changed its appointment: never used with the appointment untouched, never
\* the appointment changed with the token still unused.
C4_TokenWithMutation ==
    \A tok \in DOMAIN tokens : tokens[tok].used <=> tok \in tokenMutated

\* C5: a client reschedule or cancel succeeds only with a token that is of
\* that appointment, unused, not expired and of the appointment's e-mail.
C5_TokenConditions ==
    (last.op \in {"managePut", "manageDelete", "publicPut"} /\ last.code = 200) =>
        /\ last.facts.tokenMatches
        /\ ~last.facts.tokenWasUsed
        /\ last.facts.tokenLive
        /\ last.facts.emailMatches

C7_CancelledIsTerminal ==
    /\ [](last.op # "none" /\ last.was = "cancelled" => last.code # 200)
    /\ [][ \A i \in DOMAIN appointments :
              appointments[i].status = "cancelled" =>
                  appointments'[i].status = "cancelled" ]_vars

\* C11: an availability answer lists no slot that a live appointment of the
\* queried scope and date holds, and lists every slot of the schedule that
\* overlaps no such appointment.
C11_AvailabilityFollowsBookings ==
    last.op = "availability" =>
        /\ \A s \in last.availableSlots :
               ~\E i \in DOMAIN appointments :
                    /\ appointments[i].status # "cancelled"
                    /\ SameScope(appointments[i], s)
                    /\ appointments[i].startTime = s.date + s.startTime
                    /\ appointments[i].endTime = s.date + s.endTime
        /\ \A k \in DOMAIN BookingCache :
               LET s == BookingCache[k]
               IN  (/\ DayOf(s.date) = last.date
                    /\ (last.branchId # NoId => s.branchId = last.branchId)
                    /\ (last.workerId # NoId => s.workerId = last.workerId)
                    /\ ~\E i \in DOMAIN appointments :
                         /\ appointments[i].status # "cancelled"
                         /\ SameScope(appointments[i], s)
                         /\ appointments[i].startTime < s.date + s.endTime
                         /\ appointments[i].endTime > s.date + s.startTime)
                       => s \in last.availableSlots

\* C12: a successful reschedule of a pending or confirmed appointment, by the
\* client or by the business with no status in the request, leaves its status
\* pending.
C12_RescheduleResetsStatus ==
    (/\ last.op \in {"clientPut", "businessPut"}
     /\ last.code = 200
     /\ last.startTime # NoTime
     /\ last.endTime # NoTime
     /\ last.status = NoStatus
     /\ last.was \in {"pending", "confirmed"}) =>
        appointments[last.id].status = "pending"

\* The cache holds the slot [startTime, endTime) for the scope of x.
IsSlot(x, startTime, endTime) ==
    \E k \in DOMAIN availableSlots :
        /\ SameScope(availableSlots[k], x)
        /\ availableSlots[k].date + availableSlots[k].startTime = startTime
        /\ availableSlots[k].date + availableSlots[k].endTime = endTime

\* No live appointment other than id is in [startTime, endTime).
IsFree(id, startTime, endTime) ==
    \A i \in DOMAIN appointments :
        (i # id /\ appointments[i].status # "cancelled") =>
            ~(appointments[i].startTime < endTime
                /\ appointments[i].endTime > startTime)

\* C13: a business update of a pending appointment that carries startTime,
\* endTime and status confirmed, the target a free slot, succeeds and leaves
\* the appointment at the requested startTime, confirmed, with an audit record.
C13_MoveAndConfirm ==
    (/\ last.op = "businessPut"
     /\ last.was = "pending"
     /\ last.status = "confirmed"
     /\ last.startTime # NoTime
     /\ last.error \notin {"NotFound", "Unauthorized", "TransactionFailed"}
     /\ IsSlot(appointments[last.id], last.startTime, last.endTime)
     /\ IsFree(last.id, last.startTime, last.endTime)) =>
        /\ last.code = 200
        /\ appointments[last.id].startTime = last.startTime
        /\ appointments[last.id].status = "confirmed"
        /\ \E k \in DOMAIN auditLog : auditLog[k].entityId = last.id

\* C14: after a successful claim or client reschedule the appointment's
\* startTime and endTime are the instants the request gave.
C14_StoredAsRequested ==
    (last.op \in {"claim", "clientPut"} /\ last.code = 200) =>
        /\ appointments[last.id].startTime = last.startTime
        /\ appointments[last.id].endTime = last.endTime

\* C15: a claim that is turned away while a live appointment of its branch
\* and worker overlaps the requested range is answered 400 SlotAlreadyBooked,
\* whatever the cache holds, and creates nothing.
C15_BookedBeforeUnavailable ==
    (/\ last.op = "claim"
     /\ last.code # 200
     /\ last.error # "EmailFailed"
     /\ last.startTime < last.endTime
     /\ \E i \in DOMAIN appointments :
            /\ appointments[i].status # "cancelled"
            /\ appointments[i].branchId = last.branchId
            /\ appointments[i].workerId = last.workerId
            /\ appointments[i].startTime < last.endTime
            /\ appointments[i].endTime > last.startTime) =>
        /\ last.code = 400
        /\ last.error = "SlotAlreadyBooked"
        /\ ~last.changed

\* C16: a claim or reschedule succeeds only if its (startTime, endTime) is
\* exactly a slot of the appointment's own scope on the date of startTime.
C16_OnlyExactSlots ==
    (/\ last.op \in {"claim", "clientPut", "businessPut"}
     /\ last.code = 200
     /\ last.startTime # NoTime) =>
        IsSlot(appointments[last.id], last.startTime, last.endTime)

\* C17: appointments and tokens are created together, one token for each
\* appointment, of its clientEmail; a successful claim has just created one
\* pending appointment and one unused token of it that expires TokenTTL after
\* now, and a failed claim has created neither.
C17_AppointmentWithToken ==
    /\ Len(tokens) = Len(appointments)
    /\ \A i \in DOMAIN appointments :
           /\ Cardinality({ k \in DOMAIN tokens : tokens[k].appointmentId = i }) = 1
           /\ \A k \in DOMAIN tokens :
                  tokens[k].appointmentId = i =>
                      tokens[k].clientEmail = appointments[i].clientEmail
    /\ (last.op = "claim" /\ last.code = 200) =>
           /\ last.id = Len(appointments)
           /\ last.tok = Len(tokens)
           /\ appointments[last.id].status = "pending"
           /\ appointments[last.id].clientEmail = last.clientEmail
           /\ tokens[last.tok] = [ appointmentId |-> last.id,
                                   clientEmail |-> last.clientEmail,
                                   expiresAt |-> now + TokenTTL,
                                   used |-> FALSE ]
    /\ (last.op = "claim" /\ last.code # 200) => ~last.changed

C17_Witness ==
    /\ last.op = "claim"
    /\ last.code = 200
    /\ now > 0
    /\ Len(appointments) = 2

\* C18: no booking, reschedule, cancellation or business update is answered
\* with a failure and rolled back because the notification e-mail could not
\* be sent.
C18_EmailFailureIsHarmless ==
    last.op \in {"claim", "clientPut", "clientDelete", "businessPut"} =>
        ~(last.error = "EmailFailed" /\ last.code # 200 /\ ~last.changed)

\* C19: every step that answers a claim, client reschedule, client cancel or
\* business update with success has appended exactly one audit record, of
\* that appointment, and has sent exactly one notification.
C19_OneAuditOneNotification ==
    [][ (/\ last = NoRequest
         /\ last' # NoRequest
         /\ last'.op \in {"claim", "clientPut", "clientDelete", "businessPut"}
         /\ (last'.op = "businessPut" =>
                last'.status # NoStatus \/ last'.startTime # NoTime)
         /\ last'.code = 200) =>
            /\ Len(auditLog') = Len(auditLog) + 1
            /\ SubSeq(auditLog', 1, Len(auditLog)) = auditLog
            /\ auditLog'[Len(auditLog')].entityId = last'.id
            /\ last'.emails = 1 ]_vars

\* C20: a client reschedule or cancel of an existing appointment whose token
\* fails for any of the four causes (of another appointment, already used,
\* expired, of another e-mail) gets one and the same answer, the generic
\* InvalidOrExpiredToken, whichever the cause.
C20_UniformTokenFailure ==
    (/\ last.op \in {"managePut", "manageDelete", "publicPut"}
     /\ last.id \in DOMAIN appointments
     /\ \/ ~last.facts.tokenMatches
        \/ last.facts.tokenWasUsed
        \/ ~last.facts.tokenLive
        \/ ~last.facts.emailMatches) =>
        /\ last.code # 200
        /\ last.error = "InvalidOrExpiredToken"

---------------------------------------------------------------------------
(* The owner's management routes (routes/business.js): workers, schedule   *)
(* rules and exceptions.  Rows keep their autoincrement id: schedules and  *)
(* workers are sequences in which a deleted row leaves `Deleted` behind,   *)
(* exceptions are a set of rows that carry their id.  A schedule's         *)
(* startTime / endTime are zero-padded strings the code compares as        *)
(* strings; the model keeps them as the minute of the day, which orders    *)
(* them the same way.                                                      *)

\* Requests the management specification lets the workers start.
MaxManageRequests == 3

\* The authenticated callers (req.user.userId), each the owner of one
\* business: business.findUnique({ where: { userId } }).
Users == {1, 2}
businessOf(userId) == userId

Deleted == [ deleted |-> TRUE ]
NoValue == [ empty |-> TRUE ]
NoStatusCode == 0

\* new Error(message, { statusCode }): the second argument of the Error
\* constructor is an options bag of which only `cause` is read, so the error
\* carries no statusCode.
Error(message, options) == [ message |-> message, statusCode |-> NoStatusCode ]

\* Object.assign(error, { statusCode }), as done with a Joi error.
AssignStatus(message, statusCode) ==
    [ message |-> message, statusCode |-> statusCode ]

\* The global error handler: res.status(err.statusCode || 500).
errorHandler(err) ==
    IF err.statusCode = NoStatusCode THEN 500 ELSE err.statusCode

ManageIdle == [ pc |-> "idle" ]

ManageRequest(op, userId, id, value) ==
    [ pc |-> "check", op |-> op, userId |-> userId, id |-> id, value |-> value ]

\* The response of a management request; `target` is the row the request
\* found under its id, `changed` whether the request wrote the datastore.
ManageResponse(r, target, code, error, changed) ==
    [ op |-> r.op, userId |-> r.userId, id |-> r.id, value |-> r.value,
      target |-> target, code |-> code, error |-> error, changed |-> changed ]

ManageStarted ==
    Len(auditLog) + Cardinality({ p \in Procs : procs[p].pc # "idle" })

\* A request may start: no response is waiting and the worker is free.
ManageReady(p) ==
    /\ last = NoRequest
    /\ procs[p].pc = "idle"
    /\ ManageStarted < MaxManageRequests

ManageOther ==
    UNCHANGED << appointments, tokens, availableSlots, generated, now,
                 tokenMutated, refreshTokens >>

\* next(err): the request ends with the error handler's response, no write.
ManageThrow(p, r, target, err) ==
    /\ procs' = [ procs EXCEPT ![p] = ManageIdle ]
    /\ last' = ManageResponse(r, target, errorHandler(err), err.message, FALSE)
    /\ UNCHANGED << schedules, exceptions, workers, auditLog >>

\* res.json(...): the request ends with 200 after its transaction.
ManageDone(p, r, target, action, entity, entityId) ==
    /\ procs' = [ procs EXCEPT ![p] = ManageIdle ]
    /\ auditLog' = Append(auditLog, [ action |-> action, entity |-> entity,
                                      entityId |-> entityId ])
    /\ last' = ManageResponse(r, target, 200, "", TRUE)

(* Schedules *)

ManageTimeInputs == { << 0, 60 >>, << 30, 90 >>, << 60, 120 >>, << 60, 60 >> }
ManageWorkerInputs == { NoId, 2 }

ScheduleValues ==
    { Sched(NoId, w, 1, t[1], t[2], 30) :
        w \in ManageWorkerInputs, t \in ManageTimeInputs }

\* A Schedule row: the business and the validated body.
ScheduleRow(businessId, value) ==
    [ businessId |-> businessId, branchId |-> value.branchId,
      workerId |-> value.workerId, dayOfWeek |-> value.dayOfWeek,
      startTime |-> value.startTime, endTime |-> value.endTime,
      slotDuration |-> value.slotDuration ]

\* schedule.update({ data: value }): an absent branchId / workerId keeps the
\* row's own.
ScheduleUpdate(row, value) ==
    [ row EXCEPT
        !.branchId = IF value.branchId = NoId THEN @ ELSE value.branchId,
        !.workerId = IF value.workerId = NoId THEN @ ELSE value.workerId,
        !.dayOfWeek = value.dayOfWeek,
        !.startTime = value.startTime, !.endTime = value.endTime,
        !.slotDuration = value.slotDuration ]

Found(rows, id) == id \in DOMAIN rows /\ rows[id] # Deleted

\* schedule.findFirst({ businessId, workerId, dayOfWeek, id: { not },
\* OR: [...] }): an absent workerId is no filter; POST passes no id.
overlappingSchedule(businessId, value, notId) ==
    \E i \in DOMAIN schedules :
        /\ schedules[i] # Deleted
        /\ i # notId
        /\ schedules[i].businessId = businessId
        /\ value.workerId = NoId \/ schedules[i].workerId = value.workerId
        /\ schedules[i].dayOfWeek = value.dayOfWeek
        /\ \/ /\ schedules[i].startTime <= value.endTime
              /\ schedules[i].endTime >= value.startTime
           \/ /\ schedules[i].startTime >= value.startTime
              /\ schedules[i].endTime <= value.endTime

\* POST /schedules up to its overlap query.
PostScheduleCheck(p) ==
    /\ ManageReady(p)
    /\ \E u \in Users, value \in ScheduleValues :
           LET r == ManageRequest("postSchedule", u, NoId, value)
           IN  IF value.startTime >= value.endTime
               THEN ManageThrow(p, r, Deleted,
                        Error("startTime must be before endTime",
                              [ statusCode |-> 400 ]))
               ELSE IF overlappingSchedule(businessOf(u), value, NoId)
               THEN ManageThrow(p, r, Deleted,
                        Error("Overlapping schedule exists",
                              [ statusCode |-> 400 ]))
               ELSE /\ procs' = [ procs EXCEPT ![p] = [ r EXCEPT !.pc = "tx" ] ]
                    /\ UNCHANGED << schedules, exceptions, workers, auditLog,
                                    last >>
    /\ ManageOther

\* POST /schedules: the transaction that stores the row and the audit entry.
PostScheduleTx(p) ==
    /\ last = NoRequest
    /\ procs[p].pc = "tx"
    /\ procs[p].op = "postSchedule"
    /\ LET r == procs[p]
           id == Len(schedules) + 1
       IN  /\ schedules' = Append(schedules,
                                  ScheduleRow(businessOf(r.userId), r.value))
           /\ ManageDone(p, [ r EXCEPT !.id = id ], Deleted, "create", "Schedule", id)
    /\ UNCHANGED << exceptions, workers >>
    /\ ManageOther

\* PUT /schedules/:id up to its overlap query.
PutScheduleCheck(p) ==
    /\ ManageReady(p)
    /\ \E u \in Users, id \in 1 .. Len(schedules) + 1, value \in ScheduleValues :
           LET r == ManageRequest("putSchedule", u, id, value)
           IN  IF ~ Found(schedules, id)
               THEN ManageThrow(p, r, Deleted,
                        Error("Schedule not found", [ statusCode |-> 404 ]))
               ELSE IF value.startTime >= value.endTime
               THEN ManageThrow(p, r, schedules[id],
                        Error("startTime must be before endTime",
                              [ statusCode |-> 400 ]))
               ELSE IF overlappingSchedule(schedules[id].businessId, value, id)
               THEN ManageThrow(p, r, schedules[id],
                        Error("Overlapping schedule exists",
                              [ statusCode |-> 400 ]))
               ELSE /\ procs' = [ procs EXCEPT ![p] = [ r EXCEPT !.pc = "tx" ] ]
                    /\ UNCHANGED << schedules, exceptions, workers, auditLog,
                                    last >>
    /\ ManageOther

\* PUT /schedules/:id: the transaction.  An update of a row deleted in the
\* meantime throws in the client.
PutScheduleTx(p) ==
    /\ last = NoRequest
    /\ procs[p].pc = "tx"
    /\ procs[p].op = "putSchedule"
    /\ LET r == procs[p]
       IN  IF ~ Found(schedules, r.id)
           THEN ManageThrow(p, r, Deleted,
                    AssignStatus("Record to update not found", NoStatusCode))
           ELSE /\ schedules' = [ schedules EXCEPT
                                    ![r.id] = ScheduleUpdate(@, r.value) ]
                /\ ManageDone(p, r, schedules[r.id], "update", "Schedule", r.id)
                /\ UNCHANGED << exceptions, workers >>
    /\ ManageOther

\* DELETE /schedules/:id.
DeleteSchedule(p) ==
    /\ ManageReady(p)
    /\ \E u \in Users, id \in 1 .. Len(schedules) + 1 :
           LET r == ManageRequest("deleteSchedule", u, id, NoValue)
           IN  IF ~ Found(schedules, id)
               THEN ManageThrow(p, r, Deleted,
                        Error("Schedule not found", [ statusCode |-> 404 ]))
               ELSE /\ schedules' = [ schedules EXCEPT ![id] = Deleted ]
                    /\ ManageDone(p, r, schedules[id], "delete", "Schedule", id)
                    /\ UNCHANGED << exceptions, workers >>
    /\ ManageOther

(* Workers *)

WorkerValues == { [ workerName |-> "zoe" ] }

\* PUT /workers/:id.
PutWorker(p) ==
    /\ ManageReady(p)
    /\ \E u \in Users, id \in 1 .. Len(workers) + 1, value \in WorkerValues :
           LET r == ManageRequest("putWorker", u, id, value)
           IN  IF ~ Found(workers, id)
               THEN ManageThrow(p, r, Deleted,
                        Error("Worker not found", [ statusCode |-> 404 ]))
               ELSE IF workers[id].isOwner
               THEN ManageThrow(p, r, workers[id],
                        Error("Cannot modify owner worker",
                              [ statusCode |-> 403 ]))
               ELSE /\ workers' = [ workers EXCEPT
                                      ![id].workerName = value.workerName ]
                    /\ ManageDone(p, r, workers[id], "update", "Worker", id)
                    /\ UNCHANGED << schedules, exceptions >>
    /\ ManageOther

\* DELETE /workers/:id.
DeleteWorker(p) ==
    /\ ManageReady(p)
    /\ \E u \in Users, id \in 1 .. Len(workers) + 1 :
           LET r == ManageRequest("deleteWorker", u, id, NoValue)
           IN  IF ~ Found(workers, id)
               THEN ManageThrow(p, r, Deleted,
                        Error("Worker not found", [ statusCode |-> 404 ]))
               ELSE IF workers[id].isOwner
               THEN ManageThrow(p, r, workers[id],
                        Error("Cannot delete owner worker",
                              [ statusCode |-> 403 ]))
               ELSE /\ workers' = [ workers EXCEPT ![id] = Deleted ]
                    /\ ManageDone(p, r, workers[id], "delete", "Worker", id)
                    /\ UNCHANGED << schedules, exceptions >>
    /\ ManageOther

(* Exceptions *)

ExceptionWindows == { << NoTime, NoTime >>, << 0, 60 >>, << 60, 60 >> }

\* The validated body of an exception request; the handler reads the day
\* from its `dateTime`.
ExceptionValues ==
    { [ branchId |-> NoId, workerId |-> w, dateTime |-> Instant(1, 0),
        isClosed |-> c, startTime |-> t[1], endTime |-> t[2] ] :
        w \in ManageWorkerInputs, c \in BOOLEAN, t \in ExceptionWindows }

\* !isClosed && startTime && endTime && startTime >= endTime
badWindow(value) ==
    /\ ~ value.isClosed
    /\ value.startTime # NoTime
    /\ value.endTime # NoTime
    /\ value.startTime >= value.endTime

\* The id the next Exception row gets: one more than the rows ever created.
NextExceptionId ==
    1 + Cardinality({ i \in DOMAIN auditLog :
                        /\ auditLog[i].entity = "Exception"
                        /\ auditLog[i].action = "create" })

\* exception.create({ data }): the window is stored for a closed day only.
ExceptionRow(id, businessId, value) ==
    [ id |-> id, businessId |-> businessId, branchId |-> value.branchId,
      workerId |-> value.workerId, date |-> value.dateTime,
      isClosed |-> value.isClosed,
      startTime |-> IF value.isClosed THEN value.startTime ELSE NoTime,
      endTime |-> IF value.isClosed THEN value.endTime ELSE NoTime ]

\* exception.update({ data: { ...value, startTime, endTime } }): an absent
\* field keeps the row's own.
ExceptionUpdate(row, value) ==
    [ row EXCEPT
        !.branchId = IF value.branchId = NoId THEN @ ELSE value.branchId,
        !.workerId = IF value.workerId = NoId THEN @ ELSE value.workerId,
        !.date = value.dateTime,
        !.isClosed = value.isClosed,
        !.startTime = IF value.isClosed /\ value.startTime # NoTime
                      THEN value.startTime ELSE @,
        !.endTime = IF value.isClosed /\ value.endTime # NoTime
                    THEN value.endTime ELSE @ ]

FoundException(id) == \E x \in exceptions : x.id = id
exceptionById(id) == CHOOSE x \in exceptions : x.id = id

\* The day is written as `dateTime` while the Exception model of
\* prisma/schema.prisma names the column `date`: the client either writes the
\* day (a schema with the column the route names) or throws on the argument.
DateColumn == BOOLEAN

\* POST /exceptions.
PostException(p) ==
    /\ ManageReady(p)
    /\ \E u \in Users, value \in ExceptionValues, dateColumnOk \in DateColumn :
           LET r == ManageRequest("postException", u, NoId, value)
               id == NextExceptionId
           IN  IF badWindow(value)
               THEN ManageThrow(p, r, Deleted,
                        Error("startTime must be before endTime",
                              [ statusCode |-> 400 ]))
               ELSE IF ~ dateColumnOk
               THEN ManageThrow(p, r, Deleted,
                        AssignStatus("Unknown argument dateTime", NoStatusCode))
               ELSE /\ exceptions' = exceptions \cup
                                       { ExceptionRow(id, businessOf(u), value) }
                    /\ ManageDone(p, [ r EXCEPT !.id = id ], Deleted, "create",
                                  "Exception", id)
                    /\ UNCHANGED << schedules, workers >>
    /\ ManageOther

\* PUT /exceptions/:id.
PutException(p) ==
    /\ ManageReady(p)
    /\ \E u \in Users, id \in 1 .. NextExceptionId, value \in ExceptionValues,
          dateColumnOk \in DateColumn :
           LET r == ManageRequest("putException", u, id, value)
           IN  IF ~ FoundException(id)
               THEN ManageThrow(p, r, Deleted,
                        Error("Exception not found", [ statusCode |-> 404 ]))
               ELSE IF badWindow(value)
               THEN ManageThrow(p, r, exceptionById(id),
                        Error("startTime must be before endTime",
                              [ statusCode |-> 400 ]))
               ELSE IF ~ dateColumnOk
               THEN ManageThrow(p, r, exceptionById(id),
                        AssignStatus("Unknown argument dateTime", NoStatusCode))
               ELSE /\ exceptions' =
                            (exceptions \ { exceptionById(id) })
                            \cup { ExceptionUpdate(exceptionById(id), value) }
                    /\ ManageDone(p, r, exceptionById(id), "update",
                                  "Exception", id)
                    /\ UNCHANGED << schedules, workers >>
    /\ ManageOther

\* DELETE /exceptions/:id.
DeleteException(p) ==
    /\ ManageReady(p)
    /\ \E u \in Users, id \in 1 .. NextExceptionId :
           LET r == ManageRequest("deleteException", u, id, NoValue)
           IN  IF ~ FoundException(id)
               THEN ManageThrow(p, r, Deleted,
                        Error("Exception not found", [ statusCode |-> 404 ]))
               ELSE /\ exceptions' = exceptions \ { exceptionById(id) }
                    /\ ManageDone(p, r, exceptionById(id), "delete",
                                  "Exception", id)
                    /\ UNCHANGED << schedules, workers >>
    /\ ManageOther

ManageInit ==
    /\ schedules = << >>
    /\ exceptions = {}
    /\ appointments = << >>
    /\ tokens = << >>
    /\ availableSlots = << >>
    /\ generated = << >>
    /\ auditLog = << >>
    /\ now = 0
    /\ procs = [ p \in Procs |-> ManageIdle ]
    /\ last = NoRequest
    /\ tokenMutated = {}
    /\ workers = SeedWorkers
    /\ refreshTokens = << >>

ManageNext ==
    \/ \E p \in Procs : PostScheduleCheck(p)
    \/ \E p \in Procs : PostScheduleTx(p)
    \/ \E p \in Procs : PutScheduleCheck(p)
    \/ \E p \in Procs : PutScheduleTx(p)
    \/ \E p \in Procs : DeleteSchedule(p)
    \/ \E p \in Procs : PutWorker(p)
    \/ \E p \in Procs : DeleteWorker(p)
    \/ \E p \in Procs : PostException(p)
    \/ \E p \in Procs : PutException(p)
    \/ \E p \in Procs : DeleteException(p)
    \/ ResponseSent

ManageSpec == ManageInit /\ [][ManageNext]_vars

---------------------------------------------------------------------------
(* Claims about schedule rules *)

SameRuleScope(a, b) ==
    /\ a.businessId = b.businessId
    /\ a.branchId = b.branchId
    /\ a.workerId = b.workerId

\* C21: in every reachable state, whatever the sequence and interleaving of
\* POST /schedules and PUT /schedules/:id requests (two concurrent creates
\* for the same day included), no two stored schedule rules of the same
\* scope and dayOfWeek have overlapping [startTime, endTime) ranges.
C21_NoOverlappingRules ==
    \A i, j \in DOMAIN schedules :
        ( /\ i < j
          /\ schedules[i] # Deleted
          /\ schedules[j] # Deleted
          /\ SameRuleScope(schedules[i], schedules[j])
          /\ schedules[i].dayOfWeek = schedules[j].dayOfWeek )
        => ~ Overlap(schedules[i], schedules[j])

---------------------------------------------------------------------------
(* Claims about exceptions *)

\* C22: in every reachable state, whatever the sequence of exception create
\* and update requests, at most one exception exists per (scope, date): no
\* two Exception rows share business, branch, worker and date (a create for
\* a (scope, date) that has an exception stores nothing).
C22_OneExceptionPerDate ==
    \A x, y \in exceptions :
        ( SameRuleScope(x, y) /\ x.date = y.date ) => x.id = y.id

---------------------------------------------------------------------------
(* Claims about exception windows and the slot cache *)

\* C23: when an exception of a scope and date is not a closure and has a
\* window [s, e), the slots produced for that date tile [s, e) and only
\* [s, e): the window replaces the weekly one, so a slot start t is produced
\* exactly when [t, t + D) is one of the tiles of [s, e).
C23_WindowReplacesSchedule ==
    (CronRan /\ appointments = << >>) =>
        \A e \in exceptions, i \in DOMAIN generated :
            ( /\ ~ e.isClosed
              /\ e.startTime # NoTime
              /\ e.endTime # NoTime
              /\ SameScope(schedules[i], e)
              /\ DayOf(e.date) \in ScheduleDates(schedules[i]) )
            => \A t \in 0 .. (DayMinutes - 1) :
                   Generated(i, DayOf(e.date), t)
                   <=> /\ t >= e.startTime
                       /\ (t - e.startTime) % schedules[i].slotDuration = 0
                       /\ t + schedules[i].slotDuration <= e.endTime


(* The cache refresh of utils/cron.js and the datastore writes between runs *)

\* isBooked of precalculateAvailableSlots: a non-cancelled appointment that
\* starts in the slot's minute, of the schedule's worker and branch when the
\* schedule has them.
isBookedForSchedule(schedule, currentTime) ==
    \E a \in Range(appointments) :
        /\ a.status # "cancelled"
        /\ a.startTime = currentTime
        /\ schedule.workerId = NoId \/ a.workerId = schedule.workerId
        /\ schedule.branchId = NoId \/ a.branchId = schedule.branchId

\* The while loop over one schedule's window: availableSlots.upsert keyed by
\* (businessId, date, startTime), with an empty update.
RECURSIVE UpsertTimes(_, _, _, _, _)
UpsertTimes(cache, schedule, date, currentTime, endTime) ==
    IF ~(currentTime < endTime)
    THEN cache
    ELSE LET slotEnd == currentTime + schedule.slotDuration
             row == [ branchId  |-> schedule.branchId,
                      workerId  |-> schedule.workerId,
                      date      |-> Instant(date, 0),
                      startTime |-> TimeOfDay(currentTime),
                      endTime   |-> TimeOfDay(slotEnd) ]
             exists == \E k \in DOMAIN cache :
                           /\ cache[k].date = row.date
                           /\ cache[k].startTime = row.startTime
             next == IF isBookedForSchedule(schedule, currentTime) \/ exists
                     THEN cache
                     ELSE Append(cache, row)
         IN  UpsertTimes(next, schedule, date, slotEnd, endTime)

\* The loop over the schedules of the date's day of the week.
RECURSIVE UpsertSchedules(_, _, _)
UpsertSchedules(cache, date, i) ==
    IF i > Len(schedules)
    THEN cache
    ELSE LET s == schedules[i]
             next == IF s.dayOfWeek = DayOfWeek(date)
                     THEN UpsertTimes(cache, s, date, Instant(date, s.startTime),
                                      Instant(date, s.endTime))
                     ELSE cache
         IN  UpsertSchedules(next, date, i + 1)

\* The loop over the dates tomorrow .. tomorrow + horizon; a date with a
\* closure of the business is skipped.
RECURSIVE UpsertDates(_, _, _)
UpsertDates(cache, date, endDate) ==
    IF date > endDate
    THEN cache
    ELSE LET closed == \E e \in exceptions : DayOf(e.date) = date /\ e.isClosed
             next == IF closed THEN cache ELSE UpsertSchedules(cache, date, 1)
         IN  UpsertDates(next, date + 1, endDate)

\* The file uses DateTime and never requires luxon: the first statement of
\* the run throws, the catch logs it and nothing is written.  With DateTime
\* defined the run is the upsert loop.
DateTimeDefined == BOOLEAN

\* The cache a run of precalculateAvailableSlots leaves.
precalculateSlots(cache, defined) ==
    IF defined
    THEN UpsertDates(cache, DayOf(now) + 1, DayOf(now) + 1 + HorizonDays)
    ELSE cache

precalculateAvailableSlots ==
    /\ last = NoRequest
    /\ \E defined \in DateTimeDefined :
           /\ availableSlots' = precalculateSlots(availableSlots, defined)
           /\ last' = [ op |-> "precalculate",
                        error |-> IF defined THEN ""
                                  ELSE "DateTime is not defined" ]
    /\ UNCHANGED << workers, refreshTokens, schedules, exceptions,
                    appointments, tokens, generated, auditLog, now, procs,
                    tokenMutated >>

RefreshStatic ==
    UNCHANGED << workers, refreshTokens, tokens, availableSlots, generated,
                 auditLog, now, procs, last, tokenMutated >>

\* A claim is stored for a cached slot, with the slot's start and end.
AppointmentStored ==
    /\ Len(appointments) < MaxAppointments
    /\ \E k \in DOMAIN availableSlots, e \in Emails :
           LET slot == availableSlots[k]
           IN  appointments' = Append(appointments,
                   Appt(slot.branchId, slot.workerId, e,
                        slot.date + slot.startTime, slot.date + slot.endTime,
                        "pending"))
    /\ UNCHANGED << schedules, exceptions >>
    /\ RefreshStatic

\* A closure is stored for a schedule's scope on a date of the horizon.
ExceptionStored ==
    /\ exceptions = {}
    /\ \E i \in DOMAIN schedules, d \in DayOf(now) .. DayOf(now) + HorizonDays :
           exceptions' = { Exc(schedules[i].branchId, schedules[i].workerId, d,
                               TRUE, NoTime, NoTime) }
    /\ UNCHANGED << schedules, appointments >>
    /\ RefreshStatic

\* A schedule is deleted.
ScheduleRemoved ==
    /\ \E i \in DOMAIN schedules :
           schedules' = [ k \in 1 .. Len(schedules) - 1 |->
                            IF k < i THEN schedules[k] ELSE schedules[k + 1] ]
    /\ UNCHANGED << exceptions, appointments >>
    /\ RefreshStatic

\* The schedules of the refresh specification: the one-hour windows.
RefreshSchedules ==
    { s \in ScheduleSeqs \cup { BookingSchedules } :
        \A i \in DOMAIN s : s[i].endTime - s[i].startTime <= 60 }

RefreshInit ==
    /\ schedules \in RefreshSchedules
    /\ exceptions = {}
    /\ appointments = << >>
    /\ tokens = << >>
    /\ availableSlots = << >>
    /\ generated = << >>
    /\ auditLog = << >>
    /\ now = 0
    /\ procs = << >>
    /\ last = NoRequest
    /\ tokenMutated = {}
    /\ workers = SeedWorkers
    /\ refreshTokens = << >>

RefreshNext ==
    \/ CronAvailableSlots
    \/ precalculateAvailableSlots
    \/ AppointmentStored
    \/ ExceptionStored
    \/ ScheduleRemoved
    \/ ResponseSent

RefreshSpec == RefreshInit /\ [][RefreshNext]_vars

\* A cached row of today or later that is occupied by a non-cancelled
\* appointment of its scope, closed by an exception of its scope, or covered
\* by no schedule of its scope.
Occupied(row) ==
    \E a \in Range(appointments) :
        /\ a.status # "cancelled"
        /\ SameScope(a, row)
        /\ a.startTime < row.date + row.endTime
        /\ a.endTime > row.date + row.startTime

Closed(row) ==
    \E e \in exceptions : e.isClosed /\ SameScope(e, row) /\ e.date = row.date

Covered(row) ==
    \E s \in Range(schedules) :
        /\ SameScope(s, row)
        /\ s.dayOfWeek = DayOfWeek(DayOf(row.date))
        /\ s.startTime <= row.startTime
        /\ row.startTime < s.endTime

NoStaleRows ==
    \A k \in DOMAIN availableSlots :
        availableSlots[k].date >= Instant(DayOf(now), 0) =>
            /\ ~ Occupied(availableSlots[k])
            /\ ~ Closed(availableSlots[k])
            /\ Covered(availableSlots[k])

\* C24: right after a cache refresh run completes (no concurrent writes), the
\* cache of the horizon is the slot set of the current schedules, exceptions
\* and appointments: no cached row of today or later is occupied by a
\* non-cancelled appointment, closed by an exception or left without a
\* schedule.
C24_RefreshDropsStaleRows ==
    [][ (CronAvailableSlots \/ precalculateAvailableSlots) => NoStaleRows' ]_vars

\* C25: running the cache refresh twice in a row over unchanged schedules,
\* exceptions and appointments leaves the cached rows that running it once
\* leaves, none of them added a second time.
C25_RefreshIsIdempotent ==
    /\ cronSlots(cronSlots(availableSlots)) = cronSlots(availableSlots)
    /\ \A defined \in DateTimeDefined :
           precalculateSlots(precalculateSlots(availableSlots, defined), defined)
           = precalculateSlots(availableSlots, defined)

\* C25's case: the cache holds the rows of a completed run, some of them of
\* today or later, and a further run has rows to write.
C25_Witness ==
    /\ availableSlots # << >>
    /\ availableSlots = cronSlots(availableSlots)
    /\ CreateAll(cronGenerated, 1) # << >>

---------------------------------------------------------------------------
(* Claims about the status codes of failures *)

\* The status codes a failure may carry.
MappedStatus(error) ==
    CASE error \in {"SlotUnavailable", "SlotAlreadyBooked",
                    "InvalidOrExpiredToken", "InvalidStatusTransition"}
             -> {400}
      [] error = "NotFound" -> {404}
      [] error = "Unauthorized" -> {401, 403}
      [] OTHER -> {200, 400, 401, 403, 404, 500}

\* C27: a failed claim or transition reaches the caller with its mapped
\* status code: SlotUnavailable, SlotAlreadyBooked, InvalidOrExpiredToken and
\* InvalidStatusTransition as 400, an unknown appointment or business as 404,
\* a wrong owner as 401 or 403; none of them as 500.
C27_MappedStatusCodes ==
    (last # NoRequest /\ last.code # 200) =>
        last.code \in MappedStatus(last.error)

---------------------------------------------------------------------------
(* Claims about the management routes *)

\* C28: a PUT or DELETE on /business/workers/:id whose worker has
\* isOwner = true is answered 403 and leaves the worker row as it was, so
\* no run of the worker routes deletes or renames an owner worker.
C28_OwnerWorkerIsProtected ==
    /\ \A id \in DOMAIN SeedWorkers :
           SeedWorkers[id].isOwner => workers[id] = SeedWorkers[id]
    /\ ( /\ last # NoRequest
         /\ last.op \in {"putWorker", "deleteWorker"}
         /\ last.target # Deleted
         /\ last.target.isOwner )
       => ( last.code = 403 /\ ~ last.changed )


\* C29: a schedule or exception row is changed or deleted through PUT /
\* DELETE /business/schedules/:id and /business/exceptions/:id only when the
\* row's businessId is the caller's business: a request of the owner of
\* another business writes nothing.
C29_OnlyOwnBusinessRows ==
    ( /\ last # NoRequest
      /\ last.op \in {"putSchedule", "deleteSchedule", "putException",
                      "deleteException"}
      /\ last.target # Deleted
      /\ last.target.businessId # businessOf(last.userId) )
    => ~ last.changed

---------------------------------------------------------------------------
(* Refresh tokens (routes/auth.js): POST /login stores one, POST /refresh  *)
(* exchanges one.  The token string is a fresh uuid: the model takes the   *)
(* row's position for it, and a deleted row leaves `Deleted` behind.       *)

\* Refresh tokens the model lets the routes store.
MaxRefreshTokens == 3

\* Minutes a refresh token lives (7 days in the code).
RefreshTTL == 5

RefreshStarted ==
    Len(refreshTokens) + Cardinality({ p \in Procs : procs[p].pc # "idle" })

AuthStatic ==
    UNCHANGED << schedules, exceptions, appointments, tokens, availableSlots,
                 generated, auditLog, now, tokenMutated, workers >>

\* refreshToken.create({ token: uuidv4(), userId, expiresAt: now + 7 days })
newRefreshToken(userId) == [ userId |-> userId, expiresAt |-> now + RefreshTTL ]

\* POST /login of a verified user with the right password.
Login ==
    /\ last = NoRequest
    /\ RefreshStarted < MaxRefreshTokens
    /\ \E u \in Users :
           /\ refreshTokens' = Append(refreshTokens, newRefreshToken(u))
           /\ last' = [ op |-> "login", userId |-> u, code |-> 200,
                        refreshToken |-> Len(refreshTokens) + 1 ]
    /\ UNCHANGED procs
    /\ AuthStatic

\* The answer of POST /refresh; `step` is the part of the handler that
\* answered, `newRefreshToken` the token handed out.
RefreshResponse(refreshToken, step, code, error, new) ==
    [ op |-> "refresh", refreshToken |-> refreshToken, step |-> step,
      code |-> code, error |-> error, newRefreshToken |-> new ]

\* tokenRecord of findUnique({ where: { token } }) that is there and has not
\* expired: !tokenRecord || tokenRecord.expiresAt < new Date() is false.
validRefreshToken(refreshToken) ==
    /\ Found(refreshTokens, refreshToken)
    /\ ~ (refreshTokens[refreshToken].expiresAt < now)

\* POST /refresh up to the lookup of the token and its user.
RefreshCheck(p) ==
    /\ last = NoRequest
    /\ procs[p].pc = "idle"
    /\ RefreshStarted < MaxRefreshTokens
    /\ \E refreshToken \in 0 .. Len(refreshTokens) + 1 :
           IF refreshToken = NoId
           THEN /\ last' = RefreshResponse(refreshToken, "check", 401,
                                           "Refresh token required", NoId)
                /\ UNCHANGED procs
           ELSE IF ~ validRefreshToken(refreshToken)
           THEN /\ last' = RefreshResponse(refreshToken, "check", 401,
                               "Invalid or expired refresh token", NoId)
                /\ UNCHANGED procs
           ELSE /\ procs' = [ procs EXCEPT ![p] =
                                [ pc |-> "tx", op |-> "refresh",
                                  refreshToken |-> refreshToken,
                                  userId |-> refreshTokens[refreshToken].userId ] ]
                /\ UNCHANGED last
    /\ UNCHANGED refreshTokens
    /\ AuthStatic

\* A transaction whose delete finds no row stores nothing.
deleteNeverThrows(rows, refreshToken) == FALSE

\* refreshToken.delete({ where: { token } }) throws when the row is gone.
deleteThrows(rows, refreshToken) == ~ Found(rows, refreshToken)

\* POST /refresh: $transaction([delete, create]) and the answer.
RefreshTx(p) ==
    /\ last = NoRequest
    /\ procs[p].pc = "tx"
    /\ procs[p].op = "refresh"
    /\ LET r == procs[p]
       IN  IF deleteThrows(refreshTokens, r.refreshToken)
           THEN /\ last' = RefreshResponse(r.refreshToken, "tx", 500,
                                           "Token refresh failed", NoId)
                /\ UNCHANGED refreshTokens
           ELSE /\ refreshTokens' =
                      Append([ refreshTokens EXCEPT ![r.refreshToken] = Deleted ],
                             newRefreshToken(r.userId))
                /\ last' = RefreshResponse(r.refreshToken, "tx", 200, "",
                                           Len(refreshTokens) + 1)
    /\ procs' = [ procs EXCEPT ![p] = ManageIdle ]
    /\ AuthStatic

AuthInit ==
    /\ schedules = << >>
    /\ exceptions = {}
    /\ appointments = << >>
    /\ tokens = << >>
    /\ availableSlots = << >>
    /\ generated = << >>
    /\ auditLog = << >>
    /\ now = 0
    /\ procs = [ p \in Procs |-> ManageIdle ]
    /\ last = NoRequest
    /\ tokenMutated = {}
    /\ workers = SeedWorkers
    /\ refreshTokens = << >>

AuthNext ==
    \/ Login
    \/ \E p \in Procs : RefreshCheck(p)
    \/ \E p \in Procs : RefreshTx(p)
    \/ Tick
    \/ ResponseSent

AuthSpec == AuthInit /\ [][AuthNext]_vars

\* C30: refresh tokens rotate on use.  An exchange that succeeds found the
\* token stored, deletes it and stores one new token, which it hands out; a
\* deleted token stays deleted, so a token is exchanged at most once and of
\* two concurrent exchanges of it at most one returns new tokens; an exchange
\* that starts after the token was deleted is rejected with 401.
C30_RefreshTokensRotate ==
    [][ /\ \A t \in DOMAIN refreshTokens :
               refreshTokens[t] = Deleted => refreshTokens'[t] = Deleted
        /\ ( last = NoRequest /\ last'.op = "refresh" ) =>
               /\ last'.code = 200 =>
                      /\ Found(refreshTokens, last'.refreshToken)
                      /\ refreshTokens'[last'.refreshToken] = Deleted
                      /\ Len(refreshTokens') = Len(refreshTokens) + 1
                      /\ last'.newRefreshToken = Len(refreshTokens')
                      /\ Found(refreshTokens', last'.newRefreshToken)
               /\ ( /\ last'.step = "check"
                    /\ ~ Found(refreshTokens, last'.refreshToken) )
                  => last'.code = 401
      ]_vars

\* C30's case: of two concurrent exchanges of one token the first has
\* succeeded and the second, which had found the token, is answered.
C30_Witness ==
    /\ last.op = "refresh"
    /\ last.step = "tx"
    /\ last.code # 200
    /\ refreshTokens[last.refreshToken] = Deleted

---------------------------------------------------------------------------
(* Claims about the length of appointments *)

\* C26: every stored appointment lasts the slot duration of the schedule
\* that governs its slot: endTime - startTime is the slotDuration of a
\* schedule of its scope and day of the week (so a claim or reschedule whose
\* endTime lies on a later day, or whose length differs, stores nothing).
C26_LengthIsSlotDuration ==
    \A id \in DOMAIN appointments :
        \E i \in DOMAIN schedules :
            /\ SameScope(schedules[i], appointments[id])
            /\ schedules[i].dayOfWeek = DayOfWeek(DayOf(appointments[id].startTime))
            /\ appointments[id].endTime - appointments[id].startTime
                   = schedules[i].slotDuration

---------------------------------------------------------------------------
(* sendEmail: src/utils/email.js and the two revisions in part_006 *)

\* `let attempts = 3` (email.js) and the default `retries = 3` (part_006);
\* no caller passes another value of retries.
attempts == 3
retries == 3

EmailRevisions == { "text", "template", "html" }

EmailIdle == [ pc |-> "idle" ]

\* A call of sendEmail at its first `await transporter.sendMail(...)`:
\* i is the loop variable (i = 0 in email.js and part_006:138, attempt = 1
\* in part_006:74), results the outcomes of the attempts made so far.
EmailCall(revision) ==
    [ pc |-> "send", revision |-> revision,
      i |-> IF revision = "template" THEN 1 ELSE 0, results |-> << >> ]

\* email.js with `if (i === attempts) throw err`: the third failure sleeps,
\* the loop ends and the function returns.
sendEmailTextOffByOne(call, ok) ==
    LET c == [ call EXCEPT !.results = Append(@, ok) ]
    IN  IF ok THEN [ c EXCEPT !.pc = "returned" ]
        ELSE IF call.i = attempts THEN [ c EXCEPT !.pc = "thrown" ]
        ELSE [ c EXCEPT !.pc = "wait" ]

\* email.js: one pass of the loop body, sendMail having resolved (ok) or
\* rejected: return; or `if (i === attempts - 1) throw err`; or sleep.
sendEmailText(call, ok) ==
    LET c == [ call EXCEPT !.results = Append(@, ok) ]
    IN  IF ok THEN [ c EXCEPT !.pc = "returned" ]
        ELSE IF call.i = attempts - 1 THEN [ c EXCEPT !.pc = "thrown" ]
        ELSE [ c EXCEPT !.pc = "wait" ]

\* part_006:74: `return true`; or sleep `if (attempt < 3)`; the third
\* failure leaves the loop and reaches the throw after it.
sendEmailTemplate(call, ok) ==
    LET c == [ call EXCEPT !.results = Append(@, ok) ]
    IN  IF ok THEN [ c EXCEPT !.pc = "returned" ]
        ELSE IF call.i < 3 THEN [ c EXCEPT !.pc = "wait" ]
        ELSE [ c EXCEPT !.pc = "thrown" ]

\* part_006:138: as email.js, with `retries` for `attempts`.
sendEmailHtml(call, ok) ==
    LET c == [ call EXCEPT !.results = Append(@, ok) ]
    IN  IF ok THEN [ c EXCEPT !.pc = "returned" ]
        ELSE IF call.i = retries - 1 THEN [ c EXCEPT !.pc = "thrown" ]
        ELSE [ c EXCEPT !.pc = "wait" ]

\* The loop condition of the revision, for the loop variable i.
EmailLoop(revision, i) ==
    CASE revision = "text" -> i < attempts
      [] revision = "template" -> i <= 3
      [] revision = "html" -> i < retries

EmailStatic ==
    UNCHANGED << schedules, exceptions, appointments, tokens, availableSlots,
                 generated, auditLog, now, last, tokenMutated, workers,
                 refreshTokens >>

\* A handler calls sendEmail.
SendEmail(p) ==
    /\ procs[p].pc = "idle"
    /\ \E revision \in EmailRevisions :
           procs' = [ procs EXCEPT ![p] = EmailCall(revision) ]
    /\ EmailStatic

\* transporter.sendMail settles: one pass of the loop body.
SendMailText(p) ==
    /\ procs[p].pc = "send"
    /\ procs[p].revision = "text"
    /\ \E ok \in BOOLEAN :
           procs' = [ procs EXCEPT ![p] = sendEmailText(@, ok) ]
    /\ EmailStatic

SendMailTemplate(p) ==
    /\ procs[p].pc = "send"
    /\ procs[p].revision = "template"
    /\ \E ok \in BOOLEAN :
           procs' = [ procs EXCEPT ![p] = sendEmailTemplate(@, ok) ]
    /\ EmailStatic

SendMailHtml(p) ==
    /\ procs[p].pc = "send"
    /\ procs[p].revision = "html"
    /\ \E ok \in BOOLEAN :
           procs' = [ procs EXCEPT ![p] = sendEmailHtml(@, ok) ]
    /\ EmailStatic

\* The setTimeout of the catch block fires: i++ and the loop condition; a
\* loop that ends falls through to the end of the function (a return in
\* email.js and part_006:138, the throw in part_006:74).
EmailTimeout(p) ==
    /\ procs[p].pc = "wait"
    /\ LET c == procs[p]
           i == c.i + 1
       IN  procs' = [ procs EXCEPT ![p] =
               IF EmailLoop(c.revision, i)
               THEN [ c EXCEPT !.pc = "send", !.i = i ]
               ELSE [ c EXCEPT !.pc = IF c.revision = "template"
                                      THEN "thrown" ELSE "returned",
                               !.i = i ] ]
    /\ EmailStatic

\* The caller's await resumes with the result or the exception.
EmailSettled(p) ==
    /\ procs[p].pc \in { "returned", "thrown" }
    /\ procs' = [ procs EXCEPT ![p] = EmailIdle ]
    /\ EmailStatic

EmailInit ==
    /\ schedules = << >>
    /\ exceptions = {}
    /\ appointments = << >>
    /\ tokens = << >>
    /\ availableSlots = << >>
    /\ generated = << >>
    /\ auditLog = << >>
    /\ now = 0
    /\ procs = [ p \in Procs |-> EmailIdle ]
    /\ last = NoRequest
    /\ tokenMutated = {}
    /\ workers = SeedWorkers
    /\ refreshTokens = << >>

EmailNext ==
    \/ \E p \in Procs : SendEmail(p)
    \/ \E p \in Procs : SendMailText(p)
    \/ \E p \in Procs : SendMailTemplate(p)
    \/ \E p \in Procs : SendMailHtml(p)
    \/ \E p \in Procs : EmailTimeout(p)
    \/ \E p \in Procs : EmailSettled(p)

\* Every pending sendMail settles and every timer fires.
EmailSpec ==
    /\ EmailInit
    /\ [][EmailNext]_vars
    /\ \A p \in Procs :
           /\ WF_vars(SendMailText(p))
           /\ WF_vars(SendMailTemplate(p))
           /\ WF_vars(SendMailHtml(p))
           /\ WF_vars(EmailTimeout(p))

\* C31: sendEmail always terminates after at most 3 send attempts: no
\* attempt follows a successful one, it returns exactly when an attempt has
\* succeeded, it throws only after 3 consecutive failed attempts, and every
\* call that has started returns or throws.
C31_SendEmailTerminates ==
    /\ [] ( \A p \in Procs :
              procs[p].pc # "idle" =>
                  LET c == procs[p]
                      n == Len(c.results)
                  IN  /\ n <= 3
                      /\ \A k \in 1 .. n - 1 : ~ c.results[k]
                      /\ c.pc = "returned" <=> (n > 0 /\ c.results[n])
                      /\ c.pc = "thrown" => c.results = << FALSE, FALSE, FALSE >>
                      /\ c.pc \in { "send", "wait" } => n < 3 )
    /\ \A p \in Procs :
           (procs[p].pc \in { "send", "wait" })
               ~> (procs[p].pc \in { "returned", "thrown" })

\* C31's case: one call has thrown after its third failed attempt while
\* another has returned at its second attempt, the first having failed.
C31_Witness ==
    \E p, q \in Procs :
        /\ procs[p].pc = "thrown"
        /\ Len(procs[p].results) = 3
        /\ procs[q].pc = "returned"
        /\ procs[q].results = << FALSE, TRUE >>

---------------------------------------------------------------------------
(* Claims about the overlap check of POST /schedules *)

\* A stored rule of the scope and dayOfWeek of `value` whose
\* [startTime, endTime) intersects that of `value`.
IntersectingRule(businessId, value) ==
    \E i \in DOMAIN schedules :
        /\ schedules[i] # Deleted
        /\ SameRuleScope(schedules[i], ScheduleRow(businessId, value))
        /\ schedules[i].dayOfWeek = value.dayOfWeek
        /\ Overlap(schedules[i], value)

\* C32: POST /schedules with startTime < endTime is rejected exactly when
\* the new [startTime, endTime) intersects that of a stored rule of the same
\* scope and dayOfWeek, and then with 400; a range that only touches a
\* stored one, and a range for another worker, pass the overlap check.
C32_RejectedIffIntersecting ==
    [][ /\ ( /\ last = NoRequest
             /\ last' # NoRequest
             /\ last'.op = "postSchedule"
             /\ ~ last'.changed
             /\ last'.value.startTime < last'.value.endTime )
           => /\ last'.code = 400
              /\ IntersectingRule(businessOf(last'.userId), last'.value)
        /\ \A p \in Procs :
               ( /\ procs[p].pc = "idle"
                 /\ procs'[p].pc = "tx"
                 /\ procs'[p].op = "postSchedule" )
               => ~ IntersectingRule(businessOf(procs'[p].userId),
                                     procs'[p].value)
      ]_vars

---------------------------------------------------------------------------
(* Claims about the window an exception stores *)

\* C33: an exception created or updated with isClosed = false and a window
\* startTime s < endTime e is stored with startTime s and endTime e (a
\* custom open window); one written with isClosed = true is stored as a
\* closure.
C33_OpenWindowIsStored ==
    ( /\ last.op \in { "postException", "putException" }
      /\ last.code = 200 )
    => /\ FoundException(last.id)
       /\ exceptionById(last.id).isClosed = last.value.isClosed
       /\ ( /\ ~ last.value.isClosed
            /\ last.value.startTime # NoTime
            /\ last.value.startTime < last.value.endTime )
          => /\ exceptionById(last.id).startTime = last.value.startTime
             /\ exceptionById(last.id).endTime = last.value.endTime

---------------------------------------------------------------------------
(* Claims about adjacent slots *)

\* A business whose workers have slots of different lengths: Monday
\* 00:00-01:00, every 30 minutes for worker 1 and in one slot for worker 2;
\* the cache as the cron job fills it.
AdjacentSchedules == << Sched(1, 1, 1, 0, 60, 30), Sched(1, 2, 1, 0, 60, 60) >>

AdjacentCache ==
    CreateAll([ i \in DOMAIN AdjacentSchedules |->
                  generateSlots(AdjacentSchedules[i], 0, HorizonDays, {}, {}) ], 1)

AdjacentInit ==
    /\ schedules = AdjacentSchedules
    /\ exceptions = {}
    /\ appointments = << >>
    /\ tokens = << >>
    /\ availableSlots = AdjacentCache
    /\ generated = << >>
    /\ auditLog = << >>
    /\ now = 0
    /\ procs = [ p \in Procs |-> IdleProc ]
    /\ last = NoRequest
    /\ tokenMutated = {}
    /\ workers = SeedWorkers
    /\ refreshTokens = << >>

AdjacentSpec == AdjacentInit /\ [][Next]_vars

\* The scope a request books in: the body's for a claim, the appointment's
\* own for a reschedule or a business update.
RequestScope(r) ==
    IF r.op = "claim" THEN [ branchId |-> r.branchId, workerId |-> r.workerId ]
    ELSE [ branchId |-> appointments[r.id].branchId,
           workerId |-> appointments[r.id].workerId ]

\* The non-cancelled appointments a request may conflict with.
Others(r) ==
    { i \in DOMAIN appointments :
        i # r.id /\ appointments[i].status # "cancelled" }

\* C34: the conflict check reads intervals as half-open: while every other
\* non-cancelled appointment is of the request's own scope, a claim, a
\* reschedule or a business update is rejected as already booked only if
\* one of them intersects the requested [startTime, endTime); an
\* appointment on the adjacent slot [b, c) or [z, a) is no conflict.
C34_AdjacentSlotIsFree ==
    ( /\ last.op \in { "claim", "clientPut", "businessPut" }
      /\ last.error = "SlotAlreadyBooked"
      /\ \A i \in Others(last) :
             /\ appointments[i].branchId = RequestScope(last).branchId
             /\ appointments[i].workerId = RequestScope(last).workerId )
    => \E i \in Others(last) :
           /\ appointments[i].startTime < last.endTime
           /\ last.startTime < appointments[i].endTime

---------------------------------------------------------------------------
(* Claims about concurrent requests on one appointment *)

\* C35: of two concurrent client requests (reschedule and/or cancel) that
\* present the same unused, unexpired token at most one changes the
\* appointment: a client request never commits with a token that another
\* request has used by then.
C35_TokenUsedOnce ==
    [][ ( /\ last'.op \in ClientOps
          /\ last'.tok \in DOMAIN tokens
          /\ tokens[last'.tok].used )
        => ~ last'.changed
      ]_vars


\* C36: a business status change that runs concurrently with a client
\* cancel of the same appointment leaves a status that a serial order
\* allows: a business update that commits on an appointment which a
\* committed cancel has set to cancelled does not write it back to
\* confirmed or pending.
C36_CancelIsNotUndone ==
    [][ ( /\ last'.op = "businessPut"
          /\ last'.changed
          /\ appointments[last'.id].status = "cancelled" )
        => appointments'[last'.id].status = "cancelled"
      ]_vars

---------------------------------------------------------------------------
(* The slot cache while the cron job runs, and before its first run *)

CacheStatic ==
    UNCHANGED << workers, refreshTokens, schedules, exceptions, appointments,
                 tokens, auditLog, now, procs, last, tokenMutated >>

\* The cron job up to its deleteMany: the business is read with its
\* schedules, exceptions and appointments, then its cached rows are deleted;
\* `generated` holds, per schedule, the rows still to be created.
CronDeleteMany ==
    /\ last = NoRequest
    /\ generated = << >>
    /\ generated' = cronGenerated
    /\ availableSlots' = deleteMany(availableSlots, DayOf(now))
    /\ CacheStatic

\* One pass of the job's loop over the schedules: createMany of the rows
\* generated for the next schedule.
CronCreateMany ==
    /\ last = NoRequest
    /\ generated # << >>
    /\ availableSlots' = availableSlots \o Head(generated)
    /\ generated' = Tail(generated)
    /\ CacheStatic

\* A business that has its schedules and whose cache the job has not filled
\* yet: the job runs at midnight only.
CacheInit ==
    /\ schedules = BookingSchedules
    /\ exceptions = {}
    /\ appointments = << >>
    /\ tokens = << >>
    /\ availableSlots = << >>
    /\ generated = << >>
    /\ auditLog = << >>
    /\ now = 0
    /\ procs = [ p \in Procs |-> IdleProc ]
    /\ last = NoRequest
    /\ tokenMutated = {}
    /\ workers = SeedWorkers
    /\ refreshTokens = << >>

CacheNext ==
    \/ \E p \in Procs : ClaimCheck(p)
    \/ \E p \in Procs : ClaimTx(p)
    \/ CronDeleteMany
    \/ CronCreateMany
    \/ ResponseSent

CacheSpec == CacheInit /\ [][CacheNext]_vars

\* The cache lookup of a claim, made on the rows the job would create from
\* the datastore as it is.
FreshSlot(branchId, workerId, startTime, endTime) ==
    LET fresh == CreateAll(cronGenerated, 1)
        start == StartOfDay(startTime)
    IN  \E k \in DOMAIN fresh :
            /\ fresh[k].date = start
            /\ fresh[k].startTime = TimeOfDay(start)
            /\ fresh[k].endTime = TimeOfDay(endTime)
            /\ fresh[k].branchId = branchId
            /\ fresh[k].workerId = workerId

\* C37: a claim is rejected as SlotUnavailable only if the schedules,
\* exceptions and appointments do not make its slot available: never merely
\* because the cache has no row for it, be it that the cache was never
\* filled or that the job has deleted the rows and not yet re-created them.
C37_ColdCacheIsNoRejection ==
    ( /\ last.op = "claim"
      /\ last.error = "SlotUnavailable" )
    => ~ FreshSlot(last.branchId, last.workerId, last.startTime, last.endTime)

---------------------------------------------------------------------------
(* Claims about appointments of different scopes *)

\* C38: appointments of different scopes do not conflict: a claim, a
\* reschedule or a business update is rejected as already booked only if
\* there is another non-cancelled appointment of the request's own branch
\* and worker; an appointment of another worker, whatever its time range,
\* is no reason.
C38_OtherScopeIsNoConflict ==
    ( /\ last.op \in { "claim", "clientPut", "businessPut" }
      /\ last.error = "SlotAlreadyBooked" )
    => \E i \in Others(last) :
           /\ appointments[i].branchId = RequestScope(last).branchId
           /\ appointments[i].workerId = RequestScope(last).workerId

---------------------------------------------------------------------------
(* Claims about the token an e-mail carries *)

\* C39: the management token an e-mail of a reschedule or an update carries
\* is the token of a stored TemporaryToken row of that appointment, unused
\* and not expired, so that the client can present it; no e-mail carries a
\* token that was never stored.
C39_EmailedTokenIsStored ==
    ( /\ last.op \in { "managePut", "updateAppointment" }
      /\ last.code = 200
      /\ last.emailToken # NoId )
    => /\ last.emailToken \in DOMAIN tokens
       /\ tokens[last.emailToken].appointmentId = last.id
       /\ ~ tokens[last.emailToken].used
       /\ tokens[last.emailToken].expiresAt > now

---------------------------------------------------------------------------
(* The business update of the first routes/appointments.js *)

\* The times a body may carry: appointmentUpdateSchema makes startTime and
\* endTime optional each, so a body may carry one of them alone.
UpdateTimeInputs ==
    LegacyTimeInputs
    \cup { << Instant(1, 30), NoTime >>, << NoTime, Instant(1, 0) >> }

\* PUT /appointments/:id of the first routes/appointments.js: the transition
\* check, the slotTaken query when both times are sent, the update of the
\* fields sent, then the e-mail and the audit row, in no transaction.
AppointmentUpdate ==
    /\ last = NoRequest
    /\ Len(auditLog) < MaxLegacyRequests
    /\ \E id \in 1 .. MaxAppointments, t \in UpdateTimeInputs,
          st \in BusinessStatusInputs, emailOk \in BOOLEAN :
           IF id \notin DOMAIN appointments
           THEN LegacyReject("appointmentUpdate", id, NoId, 404, "NotFound")
           ELSE IF st # NoStatus /\ ~validTransitions(appointments[id].status, st)
           THEN LegacyReject("appointmentUpdate", id, NoId, 400,
                             "InvalidStatusTransition")
           ELSE IF t[1] # NoTime /\ t[2] # NoTime /\ existing(id, t[1])
           THEN LegacyReject("appointmentUpdate", id, NoId, 400,
                             "SlotAlreadyBooked")
           ELSE /\ appointments' =
                      [ appointments EXCEPT
                          ![id].startTime = IF t[1] # NoTime THEN t[1] ELSE @,
                          ![id].endTime = IF t[2] # NoTime THEN t[2] ELSE @,
                          ![id].status = IF st # NoStatus THEN st ELSE @ ]
                /\ IF /\ st = "cancelled" \/ t[1] # NoTime \/ t[2] # NoTime
                      /\ ~ emailOk
                   THEN /\ auditLog' = auditLog
                        /\ last' = LegacyResponse("appointmentUpdate", id, NoId,
                                                  500, "EmailFailed", TRUE)
                   ELSE /\ auditLog' = Append(auditLog,
                              [ action |-> "update", entityId |-> id ])
                        /\ last' = LegacyResponse("appointmentUpdate", id, NoId,
                                                  200, "", TRUE)
                /\ UNCHANGED << tokens, tokenMutated >>
    /\ LegacyStatic

UpdateNext ==
    \/ AppointmentUpdate
    \/ ResponseSent

UpdateSpec == LegacyInit /\ [][UpdateNext]_vars

\* C40: in every reachable state every stored appointment has
\* startTime < endTime, whatever the sequence of requests that led to it, a
\* business update that sends only one of startTime and endTime included.
C40_StartBeforeEnd ==
    \A id \in DOMAIN appointments :
        appointments[id].startTime < appointments[id].endTime

====
